---- MODULE Spec2Model ----
(***************************************************************************)
(* Model of the Cosmic Analyzer (scaleviewer): the JSON data loader, the   *)
(* main window's handlers, the time-crystal candidate detector, the        *)
(* similarity finder, the property similarity of the correlation views,    *)
(* the data exporter, the data model, the animation of the views, the     *)
(* data of the heatmap and of the network graph, and the selection of the  *)
(* waveform view.                                                          *)
(*                                                                         *)
(* JSON values are records [t, n, s]: t is the JSON type, n the number     *)
(* (numbers are kept in tenths, so 36.5 is n = 365), s the string.         *)
(* A JSON object's members are a sequence of [k, v] pairs in document      *)
(* order, which is the iteration order of the Python dict.                 *)
(***************************************************************************)
EXTENDS Integers, Sequences, FiniteSets, TLC

VARIABLES
    heap,            \* the Python lists of objects, by reference
    objects,         \* DataLoader.objects: a reference into heap
    current_file,    \* MainWindow.current_file
    view_data,       \* objects_data / objects reference held by each view
    tree_items,      \* the object rows the tree view built at its last set_data
    actions_enabled, \* the reload / analysis / export QActions
    last,            \* the last handler that ran, its inputs and its result
    loaded,          \* the handler of the last load and the new_objects of its load_file
    raw_data,        \* _validate_data: the parsed JSON document
    valid_result,    \* _validate_data: the returned value
    det_objects,     \* find_candidates: the objects argument
    candidates,      \* find_candidates: the returned list
    sim_args,        \* find_similar: source_object, all_objects, n and metric
    sim_result,      \* find_similar: the returned list
    corr_args,       \* calculate_property_similarity: the objects, the property and the view
    corr_result,     \* calculate_property_similarity: the returned value, a fraction of tenths
    exp_args,        \* export_data: file_path, objects and format_type
    exp_file,        \* the file export_data wrote: its JSON text or its CSV rows
    exp_ret,         \* export_data: the returned value, or the exception raised
    tree_selection,  \* the cell selected in the tree view, if any
    table_selection, \* the id of the row selected in the table view, if any
    current_object,  \* current_object of the radar view and of the crystal view
    highlighted,     \* the rows highlight_similar_objects left in green
    info_dock,       \* the info dock: visibility, page, current_object, HTML
    aux_views,       \* _netgraph_view, _heatmap_view and _waveform_compare_view
    handled,         \* the last user action handled, its dialog and its outcome
    dm_all_objects,  \* DataModel.all_objects
    dm_by_scale,     \* DataModel.objects_by_scale: a list of objects per key
    dm_metadata,     \* DataModel.tags and DataModel.catalogs
    crystal,         \* CrystalView: the animation, the crystal type, the scene items
    radar,           \* RadarView: the animation, the objects, the compare selector
    anim,            \* WaveformView, HeatmapView, NetGraphView: the animation
    view_focus,      \* the animated view whose events the behaviour follows
    view_event,      \* the last event an animated view handled
    aux_data,        \* HeatmapView and NetGraphView: the objects and what is drawn
    wave,            \* WaveformView: the list widget and selected_objects
    pc               \* position of a function under test: "call" or "done"

loaderVars == <<heap, objects, current_file, view_data, tree_items,
                actions_enabled, last, loaded>>
validateVars == <<raw_data, valid_result>>
detectVars == <<det_objects, candidates>>
similarVars == <<sim_args, sim_result>>
corrVars == <<corr_args, corr_result>>
exportVars == <<exp_args, exp_file, exp_ret>>
windowVars == <<tree_selection, table_selection, current_object, highlighted,
                info_dock, aux_views, handled>>

modelVars == <<dm_all_objects, dm_by_scale, dm_metadata>>
viewVars == <<crystal, radar, anim, view_focus, view_event, aux_data, wave>>

\* The variables of the functions and of the views checked on their own
funcVars == <<validateVars, detectVars, similarVars, corrVars, exportVars,
              modelVars, viewVars>>

vars == <<heap, objects, current_file, view_data, tree_items, actions_enabled,
          last, loaded, raw_data, valid_result, det_objects, candidates, sim_args,
          sim_result,
          corr_args, corr_result,
          exp_args, exp_file, exp_ret,
          tree_selection, table_selection, current_object, highlighted,
          info_dock, aux_views, handled,
          dm_all_objects, dm_by_scale, dm_metadata,
          crystal, radar, anim, view_focus, view_event, aux_data, wave, pc>>

-----------------------------------------------------------------------------
(* Bounds *)

MaxFileLen == 2      \* elements in one input file
MaxObjects == 3      \* objects held by the loader
MaxRefs == 2         \* list references 0..MaxRefs
MaxDetLen == 3       \* objects handed to find_candidates
MaxSimLen == 3       \* objects handed to find_similar
MaxN == 2            \* the n of find_similar
MaxModelLen == 3     \* objects handed to DataModel.set_objects
MaxCorrFields == 2   \* data members of an object handed to a correlation view
MaxExportLen == 2    \* objects handed to export_data

-----------------------------------------------------------------------------
(* JSON values *)

Num(n) == [t |-> "num", n |-> n, s |-> ""]
Str(s) == [t |-> "str", n |-> 0, s |-> s]
Null == [t |-> "null", n |-> 0, s |-> ""]

Pair(k, v) == [k |-> k, v |-> v]

Dict(items) == [isdict |-> TRUE, items |-> items]
NotADict == [isdict |-> FALSE, items |-> <<>>]

\* utils/constants.py SCALE_NAMES
SCALE_NAMES ==
    <<"cosmic", "galactic", "stellar", "planetary", "human",
      "cellular", "molecular", "atomic", "quantum">>

Range(f) == {f[i] : i \in DOMAIN f}

RequiredKeys == {"id", "scale", "name"}
AllKeys == {"id", "scale", "name", "data"}

\* One element of the "objects" array.  has is the set of keys present.
Elem(isdict, has, id, scale, name, data) ==
    [isdict |-> isdict, has |-> has, id |-> id, scale |-> scale,
     name |-> name, data |-> data]

OrbitData == Dict(<<Pair("orbital_period", Num(3650))>>)

ObjA == Elem(TRUE, AllKeys, "a", "quantum", "A", Dict(<<>>))
ObjB == Elem(TRUE, AllKeys, "b", "planetary", "B", OrbitData)
ObjA2 == Elem(TRUE, AllKeys, "a", "stellar", "A2", OrbitData)
ObjE == Elem(TRUE, AllKeys, "", "cosmic", "E", Dict(<<>>))
ObjBadScale == Elem(TRUE, AllKeys, "c", "bogus", "C", Dict(<<>>))

\* The elements input files are built from: valid records (two of them
\* sharing an id, one with an empty id) and one record per way of being
\* invalid.
ElemPool ==
    { ObjA, ObjB, ObjA2, ObjE, ObjBadScale,
      Elem(FALSE, {}, "", "", "", NotADict),
      Elem(TRUE, AllKeys \ {"id"}, "", "quantum", "noid", Dict(<<>>)),
      Elem(TRUE, AllKeys \ {"name"}, "c", "quantum", "", Dict(<<>>)),
      Elem(TRUE, AllKeys \ {"data"}, "c", "atomic", "C", NotADict),
      Elem(TRUE, AllKeys, "c", "atomic", "C", NotADict) }

SeqsUpTo(S, n) == UNION {[1..k -> S] : k \in 0..n}

\* What open() + json.load() yield for a file: a decode error, an I/O
\* error, a scalar, a dict (with or without the 'objects' key) or a list.
RawFile(kind, hasObjects, objs) ==
    [kind |-> kind, hasObjects |-> hasObjects, objects |-> objs]

\* The parsed documents _validate_data is applied to
RawDocs ==
    { RawFile("scalar", FALSE, <<>>), RawFile("dict", FALSE, <<>>) }
    \cup { RawFile("dict", TRUE, l) : l \in SeqsUpTo(ElemPool, MaxFileLen) }
    \cup { RawFile("list", TRUE, l) : l \in SeqsUpTo(ElemPool, MaxFileLen) }

\* The elements of the files the main window is made to open: two valid
\* records sharing an id, one with an empty id, one of unknown scale
FilePool == {ObjA, ObjA2, ObjE, ObjBadScale}

\* The files the main window is made to open
RawFiles ==
    { RawFile("badjson", FALSE, <<>>), RawFile("ioerror", FALSE, <<>>),
      RawFile("scalar", FALSE, <<>>), RawFile("dict", FALSE, <<>>),
      RawFile("list", TRUE, <<>>) }
    \cup { RawFile("dict", TRUE, l) : l \in SeqsUpTo(FilePool, MaxFileLen) }

Paths == {"f1.json", "f2.json"}

\* Python None, for a list-valued result
None == [none |-> TRUE, list |-> <<>>]
Some(l) == [none |-> FALSE, list |-> l]

\* Python truthiness of None-or-list
Truthy(r) == ~r.none /\ r.list # <<>>

-----------------------------------------------------------------------------
(* DataLoader._validate_data *)

\* ElementAccepted without the check of the data field
ElementAccepted_NoDataCheck(obj) ==
    /\ obj.isdict
    /\ RequiredKeys \subseteq obj.has
    /\ obj.scale \in Range(SCALE_NAMES)

\* ElementAccepted with every scale accepted
ElementAccepted_AnyScale(obj) ==
    /\ obj.isdict
    /\ AllKeys \subseteq obj.has
    /\ obj.data.isdict

\* The body of the for loop: TRUE when the element reaches
\* valid_objects.append(obj), FALSE when one of the checks hits 'continue'.
ElementAccepted(obj) ==
    IF ~obj.isdict THEN FALSE
    ELSE IF "id" \notin obj.has \/ "scale" \notin obj.has \/ "name" \notin obj.has
    THEN FALSE
    ELSE IF (IF "scale" \in obj.has THEN obj.scale ELSE "") \notin Range(SCALE_NAMES)
    THEN FALSE
    ELSE IF "data" \notin obj.has \/ ~obj.data.isdict THEN FALSE
    ELSE TRUE

RECURSIVE ValidateLoop(_, _, _)
ValidateLoop(objects_list, i, valid_objects) ==
    IF i > Len(objects_list) THEN valid_objects
    ELSE ValidateLoop(objects_list, i + 1,
                      IF ElementAccepted(objects_list[i])
                      THEN Append(valid_objects, objects_list[i])
                      ELSE valid_objects)

\* raw is what json.load returned ("dict", "list" or "scalar").
ValidateData(raw) ==
    IF raw.kind \notin {"dict", "list"} THEN None
    ELSE LET objects_list == IF raw.kind = "dict" /\ ~raw.hasObjects
                             THEN <<>> ELSE raw.objects
         IN IF objects_list = <<>> THEN None
            ELSE LET valid_objects == ValidateLoop(objects_list, 1, <<>>)
                 IN IF valid_objects = <<>> THEN None ELSE Some(valid_objects)

-----------------------------------------------------------------------------
(* DataLoader.load_file *)

NoRef == 0 - 1       \* a view's own initial empty list
Refs == 0..MaxRefs

ListOf(h, r) == IF r = NoRef THEN <<>> ELSE h[r]

ViewNames == {"tree", "table", "waveform", "radar", "crystal"}

ExistingIds(objs) == {objs[i].id : i \in DOMAIN objs}

UniqueNewObjects_KeepAll(new_objects, existing_ids) == new_objects

\* unique_new_objects: the new objects whose id is not among existing_ids
RECURSIVE UniqueNewObjects(_, _)
UniqueNewObjects(new_objects, existing_ids) ==
    IF new_objects = <<>> THEN <<>>
    ELSE LET rest == UniqueNewObjects(Tail(new_objects), existing_ids)
         IN IF Head(new_objects).id \notin existing_ids
            THEN <<Head(new_objects)>> \o rest
            ELSE rest

\* The lists the heatmap and the network graph were given
AuxRefs == {aux_data.heatmap.objects, aux_data.netgraph.objects}

FreeRef ==
    CHOOSE r \in Refs :
        r # objects /\ r \notin AuxRefs /\ \A v \in ViewNames : view_data[v] # r

\* load_file emptying DataLoader.objects before it reads the file
LoadFile_ClearFirst(raw, append) ==
    IF raw.kind \in {"badjson", "ioerror"}
    THEN [heap |-> [heap EXCEPT ![objects] = <<>>], objects |-> objects,
          ret |-> NoRef, outcome |-> raw.kind]
    ELSE LET new_objects == ValidateData(raw)
         IN IF Truthy(new_objects)
            THEN IF append /\ heap[objects] # <<>>
                 THEN LET existing_ids == ExistingIds(heap[objects])
                          unique_new_objects ==
                              UniqueNewObjects(new_objects.list, existing_ids)
                      IN [heap |-> [heap EXCEPT ![objects] = @ \o unique_new_objects],
                          objects |-> objects, ret |-> objects,
                          outcome |-> "appended"]
                 ELSE [heap |-> [heap EXCEPT ![FreeRef] = new_objects.list],
                       objects |-> FreeRef, ret |-> FreeRef,
                       outcome |-> "replaced"]
            ELSE [heap |-> heap, objects |-> objects, ret |-> NoRef,
                  outcome |-> "novalid"]

\* The result of load_file(file_path, append) on the file content raw:
\* the heap and DataLoader.objects after the call and the returned value
\* (None, or the reference of the returned list).
LoadFile(raw, append) ==
    IF raw.kind \in {"badjson", "ioerror"}
    THEN [heap |-> heap, objects |-> objects, ret |-> NoRef, outcome |-> raw.kind]
    ELSE LET new_objects == ValidateData(raw)
         IN IF Truthy(new_objects)
            THEN IF append /\ heap[objects] # <<>>
                 THEN LET existing_ids == ExistingIds(heap[objects])
                          unique_new_objects ==
                              UniqueNewObjects(new_objects.list, existing_ids)
                      IN [heap |-> [heap EXCEPT ![objects] = @ \o unique_new_objects],
                          objects |-> objects, ret |-> objects,
                          outcome |-> "appended"]
                 ELSE [heap |-> [heap EXCEPT ![FreeRef] = new_objects.list],
                       objects |-> FreeRef, ret |-> FreeRef,
                       outcome |-> "replaced"]
            ELSE [heap |-> heap, objects |-> objects, ret |-> NoRef,
                  outcome |-> "novalid"]

-----------------------------------------------------------------------------
(* MainWindow *)

\* ScaleTreeView.set_data: one row per object whose scale has a scale item
TreeRows(objs) == SelectSeq(objs, LAMBDA o : o.scale \in Range(SCALE_NAMES))

\* Lists no reference points to are garbage
Collect(h, live) == [r \in Refs |-> IF r \in live THEN h[r] ELSE <<>>]

InitLoader ==
    /\ heap = [r \in Refs |-> <<>>]
    /\ objects = 0
    /\ current_file = ""
    /\ view_data = [v \in ViewNames |-> NoRef]
    /\ tree_items = <<>>
    /\ actions_enabled = FALSE
    /\ last = [op |-> "init", path |-> "", append |-> FALSE, outcome |-> "",
               ret |-> NoRef]
    /\ loaded = [handler |-> "", new_objects |-> None]

AuxNames == {"netgraph", "heatmap", "waveform_compare"}

\* An auxiliary view that has not been created: the attribute is None
NoView == [created |-> FALSE, shown |-> FALSE]

\* What a handler leaves behind: its name, the message box it opened, the
\* components it called and the exception that left it
Handled(handler, dialog, title, invoked, escaped) ==
    [handler |-> handler, dialog |-> dialog, title |-> title,
     invoked |-> invoked, escaped |-> escaped]

\* The window after MainWindow.__init__: nothing selected, the info dock
\* hidden on its object page, the auxiliary views not created
InitWindow ==
    /\ tree_selection = <<>>
    /\ table_selection = <<>>
    /\ current_object = [v \in {"radar", "crystal"} |-> <<>>]
    /\ highlighted = [tree |-> {}, table |-> {}]
    /\ info_dock = [visible |-> FALSE, page |-> "object",
                    current_object |-> <<>>, html |-> <<>>]
    /\ aux_views = [v \in AuxNames |-> NoView]
    /\ handled = Handled("init", "", "", {}, "")

\* set_data of the tree and of the table removes the rows, and with them
\* the selection and the highlighting
RowsReplaced ==
    /\ tree_selection' = <<>>
    /\ table_selection' = <<>>
    /\ highlighted' = [tree |-> {}, table |-> {}]

\* MainWindow.load_data_file(file_path, append), the file holding raw
LoadDataFile(file_path, raw, append) ==
    \E r \in {LoadFile(raw, append)} :
       /\ Len(r.heap[r.objects]) <= MaxObjects
       /\ last' = [op |-> "load", path |-> file_path, append |-> append,
                   outcome |-> r.outcome, ret |-> r.ret]
       /\ UNCHANGED <<funcVars, pc>>
       /\ objects' = r.objects
       /\ IF r.ret # NoRef /\ r.heap[r.ret] # <<>>
          THEN /\ current_file' = file_path
               /\ view_data' = [v \in ViewNames |-> r.ret]
               /\ tree_items' = TreeRows(r.heap[r.ret])
               /\ actions_enabled' = TRUE
               /\ heap' = Collect(r.heap, {r.objects, r.ret} \cup AuxRefs)
               /\ RowsReplaced
               /\ UNCHANGED <<current_object, info_dock, aux_views, handled>>
          ELSE /\ heap' = r.heap
               /\ UNCHANGED <<current_file, view_data, tree_items, actions_enabled,
                              windowVars>>

\* new_objects of load_file: what _validate_data returned for the document
\* read, None when the file could not be read or parsed
Loaded(handler, raw) ==
    [handler |-> handler,
     new_objects |-> IF raw.kind \in {"badjson", "ioerror"}
                     THEN None
                     ELSE ValidateData(raw)]

\* MainWindow.on_open_file: the user picks a file and, when objects are
\* loaded, answers the append question
OnOpenFile ==
    \E file_path \in Paths, raw \in RawFiles :
        \E append_mode \in (IF heap[objects] # <<>> THEN BOOLEAN ELSE {FALSE}) :
            /\ LoadDataFile(file_path, raw, append_mode)
            /\ loaded' = Loaded("on_open_file", raw)

OnReloadFile_Append ==
    /\ current_file # ""
    /\ \E raw \in RawFiles :
           /\ LoadDataFile(current_file, raw, TRUE)
           /\ loaded' = Loaded("on_reload_file", raw)

\* MainWindow.on_reload_file
OnReloadFile ==
    /\ current_file # ""
    /\ \E raw \in RawFiles :
           /\ LoadDataFile(current_file, raw, FALSE)
           /\ loaded' = Loaded("on_reload_file", raw)

\* An empty dict
EmptyDict == [k \in {} |-> <<>>]

\* DataModel.__init__
InitDataModel ==
    /\ dm_all_objects = <<>>
    /\ dm_by_scale = EmptyDict
    /\ dm_metadata = [tags |-> {}, catalogs |-> {}]

AnimatedViews == {"crystal", "radar", "waveform", "heatmap", "netgraph"}
ToggledViews == {"waveform", "heatmap", "netgraph"}

CrystalTypes == <<"time_crystal", "space_crystal", "cubic", "hexagonal">>

\* CrystalView.__init__: no object, not playing, the selector on its first
\* entry; the attributes particles and bonds do not exist yet
InitCrystal ==
    crystal = [current_object |-> FALSE, playing |-> FALSE,
               timer_active |-> FALSE, animation_frame |-> 0,
               type_index |-> 0, crystal_type |-> "time_crystal",
               show_bonds |-> TRUE, particles |-> "unset", bonds |-> "unset",
               raised |-> FALSE, escaped |-> ""]

\* RadarView.__init__: no objects, an empty compare selector
InitRadar ==
    radar = [objects_data |-> 0, selector_count |-> 0,
             selector_index |-> 0 - 1,
             current_object |-> FALSE, comparison_object |-> FALSE,
             playing |-> FALSE, timer_active |-> FALSE, animation_frame |-> 0,
             escaped |-> ""]

\* __init__ of WaveformView, HeatmapView and NetGraphView
InitAnim ==
    anim = [v \in ToggledViews |->
               [animation_running |-> FALSE, timer_active |-> FALSE,
                animation_frame |-> 0, has_data |-> FALSE]]

\* HeatmapView.__init__ and NetGraphView.__init__: an empty list of their
\* own, no correlation data, no nodes, the scale selector on "Wszystkie"
InitAuxData ==
    aux_data = [heatmap |-> [objects |-> NoRef, selected_property |-> "periodicity",
                             correlation_data |-> None],
                netgraph |-> [objects |-> NoRef, scales |-> {},
                              selected_scale |-> "all", nodes |-> {}]]

\* WaveformView.__init__: an empty list widget, nothing selected
InitWave ==
    wave = [objects |-> <<>>, items |-> <<>>, selected |-> {}, current |-> 0,
            selected_objects |-> {}]

InitViews(focus) ==
    /\ InitCrystal
    /\ InitRadar
    /\ InitAnim
    /\ InitAuxData
    /\ InitWave
    /\ view_focus = focus
    /\ view_event = [view |-> "", event |-> "init"]

InitViewsIdle == InitViews("")

InitValidateIdle ==
    /\ raw_data = RawFile("scalar", FALSE, <<>>)
    /\ valid_result = None

InitDetectIdle ==
    /\ det_objects = <<>>
    /\ candidates = <<>>

InitSimilarIdle ==
    /\ sim_args = [source |-> ObjA, all_objects |-> <<>>, n |-> 0,
                   metric |-> "cosine"]
    /\ sim_result = <<>>

InitCorrIdle ==
    /\ corr_args = [obj1 |-> ObjA, obj2 |-> ObjA, property_type |-> "periodicity",
                    view |-> "heatmap"]
    /\ corr_result = [n |-> 0, d |-> 1]

InitExportIdle ==
    /\ exp_args = [file_path |-> "", objects |-> <<>>, format_type |-> ""]
    /\ exp_file = [format |-> "", text |-> "", rows |-> <<>>]
    /\ exp_ret = ""

Init ==
    /\ InitLoader
    /\ InitWindow
    /\ InitDataModel
    /\ InitViewsIdle
    /\ InitExportIdle
    /\ InitCorrIdle
    /\ InitValidateIdle
    /\ InitDetectIdle
    /\ InitSimilarIdle
    /\ pc = "idle"

Next == OnOpenFile \/ OnReloadFile

Spec == Init /\ [][Next]_vars

-----------------------------------------------------------------------------
(* _validate_data on its own: every parsed document, then the call *)

InitValidate ==
    /\ InitLoader
    /\ InitWindow
    /\ InitDataModel
    /\ InitViewsIdle
    /\ InitExportIdle
    /\ InitCorrIdle
    /\ InitDetectIdle
    /\ InitSimilarIdle
    /\ raw_data \in RawDocs
    /\ valid_result = None
    /\ pc = "call"

CallValidateData ==
    /\ pc = "call"
    /\ valid_result' = ValidateData(raw_data)
    /\ pc' = "done"
    /\ UNCHANGED <<loaderVars, windowVars, viewVars, modelVars, exportVars, corrVars, detectVars, similarVars, raw_data>>

NextValidate == CallValidateData

SpecValidate == InitValidate /\ [][NextValidate]_vars

-----------------------------------------------------------------------------
(* Strings: str.lower(), the 'in' substring test, str(number) and           *)
(* _extract_numeric_value                                                   *)

UpperCase == "ABCDEFGHIJKLMNOPQRSTUVWXYZ"
LowerCase == "abcdefghijklmnopqrstuvwxyz"
Digits == "0123456789"

\* Position of the one-character string c in the string s, 0 when absent
IndexOf(s, c) ==
    IF \E i \in 1..Len(s) : SubSeq(s, i, i) = c
    THEN CHOOSE i \in 1..Len(s) :
             SubSeq(s, i, i) = c /\ \A j \in 1..(i - 1) : SubSeq(s, j, j) # c
    ELSE 0

LowerChar(c) ==
    LET i == IndexOf(UpperCase, c)
    IN IF i = 0 THEN c ELSE SubSeq(LowerCase, i, i)

RECURSIVE Lower(_)
Lower(s) ==
    IF Len(s) = 0 THEN ""
    ELSE LowerChar(SubSeq(s, 1, 1)) \o Lower(SubSeq(s, 2, Len(s)))

\* Python's  t in s  on strings
Contains(s, t) ==
    \E i \in 1..(Len(s) - Len(t) + 1) : SubSeq(s, i, i + Len(t) - 1) = t

IsDigit(c) == IndexOf(Digits, c) # 0
DigitVal(c) == IndexOf(Digits, c) - 1

\* ''.join(c for c in value if c.isdigit() or c == '.' or c == '-')
RECURSIVE NumericChars(_)
NumericChars(s) ==
    IF Len(s) = 0 THEN ""
    ELSE LET c == SubSeq(s, 1, 1)
             rest == NumericChars(SubSeq(s, 2, Len(s)))
         IN IF IsDigit(c) \/ c = "." \/ c = "-" THEN c \o rest ELSE rest

RECURSIVE DigitsVal(_)
DigitsVal(s) ==
    IF Len(s) = 0 THEN 0
    ELSE 10 * DigitsVal(SubSeq(s, 1, Len(s) - 1)) + DigitVal(SubSeq(s, Len(s), Len(s)))

AllDigits(s) == \A i \in 1..Len(s) : IsDigit(SubSeq(s, i, i))

\* float(numeric_str) for a string of digits, '.' and '-': the value in
\* tenths (digits after the first decimal are not kept), or no value when
\* float() raises ValueError.
ParseFloat(numeric_str) ==
    LET neg == Len(numeric_str) > 0 /\ SubSeq(numeric_str, 1, 1) = "-"
        body == IF neg THEN SubSeq(numeric_str, 2, Len(numeric_str)) ELSE numeric_str
        dot == IndexOf(body, ".")
        ipart == IF dot = 0 THEN body ELSE SubSeq(body, 1, dot - 1)
        fpart == IF dot = 0 THEN "" ELSE SubSeq(body, dot + 1, Len(body))
        ok == /\ AllDigits(ipart)
              /\ AllDigits(fpart)
              /\ Len(ipart) + Len(fpart) > 0
        mag == 10 * DigitsVal(ipart)
               + (IF Len(fpart) = 0 THEN 0 ELSE DigitVal(SubSeq(fpart, 1, 1)))
    IN IF ok THEN [ok |-> TRUE, n |-> IF neg THEN 0 - mag ELSE mag]
       ELSE [ok |-> FALSE, n |-> 0]

\* _extract_numeric_value: [ok, n], n in tenths; ok = FALSE stands for None
ExtractNumericValue(value) ==
    IF value.t = "num" THEN [ok |-> TRUE, n |-> value.n]
    ELSE IF value.t = "str"
    THEN LET numeric_str == NumericChars(value.s)
         IN IF numeric_str # "" THEN ParseFloat(numeric_str)
            ELSE [ok |-> FALSE, n |-> 0]
    ELSE [ok |-> FALSE, n |-> 0]

RECURSIVE NatToStr(_)
NatToStr(n) ==
    IF n < 10 THEN SubSeq(Digits, n + 1, n + 1)
    ELSE NatToStr(n \div 10) \o SubSeq(Digits, (n % 10) + 1, (n % 10) + 1)

\* str(value): a number in tenths prints as an int when it is whole and
\* with one decimal otherwise
ToStr(value) ==
    IF value.t = "str" THEN value.s
    ELSE IF value.t = "null" THEN "None"
    ELSE LET mag == IF value.n < 0 THEN 0 - value.n ELSE value.n
             sign == IF value.n < 0 THEN "-" ELSE ""
         IN IF mag % 10 = 0 THEN sign \o NatToStr(mag \div 10)
            ELSE sign \o NatToStr(mag \div 10) \o "." \o NatToStr(mag % 10)

-----------------------------------------------------------------------------
(* CrystalDetector *)

Exists(field, priority) ==
    [field |-> field, kind |-> "exists", priority |-> priority,
     min_value |-> 0, values |-> <<>>, pattern |-> ""]

\* self.time_crystal_criteria["criteria"]; min_value is in tenths
Criteria ==
    << Exists("period", 3), Exists("orbital_period", 3),
       Exists("rotation_period", 3), Exists("oscillation_period", 3),
       Exists("cycle_duration", 3),
       Exists("frequency", 3), Exists("peak_frequency", 3),
       Exists("resonance_frequency", 3), Exists("pulsation_frequency", 3),
       Exists("rotation_curve_flat_velocity", 2), Exists("rotation_velocity", 2),
       Exists("angular_velocity", 2),
       [field |-> "spin", kind |-> "values", priority |-> 2, min_value |-> 0,
        values |-> <<"1/2", "1", "3/2">>, pattern |-> ""],
       Exists("elementary_charge", 2), Exists("energy", 2),
       [field |-> "lifetime", kind |-> "min_value", priority |-> 1,
        min_value |-> 1000, values |-> <<>>, pattern |-> ""],
       Exists("age", 1), Exists("coherence_time", 1),
       [field |-> "symmetry", kind |-> "pattern", priority |-> 1, min_value |-> 0,
        values |-> <<>>, pattern |-> "breaking"],
       Exists("bond_angle", 1) >>

\* self.time_crystal_criteria["preferred_scales"]
PreferredScales ==
    {"quantum", "atomic", "molecular", "cellular", "human", "planetary",
     "stellar", "galactic", "cosmic"}

PeriodicityFields ==
    {"frequency", "period", "orbital_period", "rotation_period",
     "oscillation_period", "cycle_duration", "peak_frequency",
     "pulsation_frequency", "resonance_frequency", "angular_velocity",
     "rotation_curve_flat_velocity", "rotation_velocity"}

QuantumFields ==
    {"spin", "elementary_charge", "first_ionization_energy",
     "electron_affinity", "energy", "momentum", "ground_state_wavelength"}

\* field_categories, in the order of the dict
FieldCategories ==
    << PeriodicityFields,
       QuantumFields,
       {"lifetime", "age", "life_expectancy_global", "coherence_time",
        "half_life", "stability"},
       \* (the source writes the third name with en dashes)
       {"symmetry", "bond_angle", "H-O-H bond_angle", "lattice_symmetry",
        "molecular_symmetry", "spatial_symmetry"},
       {"mass", "stellar_mass", "rest_mass", "atomic_radius",
        "molecular_weight", "density", "critical_density"},
       {"amplitude", "temperature_anisotropy_rms", "wave_height",
        "oscillation_amplitude", "vibration_amplitude", "luminosity"} >>

PeriodicityTerms ==
    {"period", "cycle", "frequen", "rotat", "orbit", "oscill", "veloc"}

\* The smallest index of the set S, 0 when S is empty
FirstIndex(S) ==
    IF S = {} THEN 0 ELSE CHOOSE i \in S : \A j \in S : i <= j

HasField(items, k) == \E i \in DOMAIN items : items[i].k = k

\* Lines 142-159: the matched member of obj_data for a criterion field, as
\* an index into the dict (0: matched_field stays None)
RECURSIVE CategoryMatch(_, _, _)
CategoryMatch(items, criterion_field, c) ==
    IF c > Len(FieldCategories) THEN 0
    ELSE LET m == IF criterion_field \in FieldCategories[c]
                  THEN FirstIndex({i \in DOMAIN items : items[i].k \in FieldCategories[c]})
                  ELSE 0
         IN IF m # 0 THEN m ELSE CategoryMatch(items, criterion_field, c + 1)

MatchedIndex(items, criterion_field) ==
    IF HasField(items, criterion_field)
    THEN FirstIndex({i \in DOMAIN items : items[i].k = criterion_field})
    ELSE CategoryMatch(items, criterion_field, 1)

SuggestsPeriodicity(obj_field) ==
    \E term \in PeriodicityTerms : Contains(Lower(obj_field), term)

\* Lines 181-204
MatchScore(criterion, matched_value) ==
    IF criterion.kind = "min_value"
    THEN LET numeric_value == ExtractNumericValue(matched_value)
         IN IF numeric_value.ok /\ numeric_value.n >= criterion.min_value
            THEN 2 ELSE 0
    ELSE IF criterion.kind = "values"
    THEN LET str_value == Lower(ToStr(matched_value))
         IN IF \E i \in DOMAIN criterion.values :
                   Contains(str_value, Lower(criterion.values[i]))
            THEN 2 ELSE 0
    ELSE IF criterion.kind = "pattern"
    THEN IF matched_value.t = "str"
            /\ Contains(Lower(matched_value.s), Lower(criterion.pattern))
         THEN 2 ELSE 0
    ELSE 1

\* Lines 216-239
ScaleBonus(obj_scale, matched_field) ==
    (IF matched_field \in PeriodicityFields THEN 2 ELSE 0)
    + (IF obj_scale = "quantum" /\ matched_field \in QuantumFields THEN 2
       ELSE IF obj_scale = "atomic" /\ matched_field \in QuantumFields THEN 1
       ELSE IF obj_scale = "molecular" /\ Contains(matched_field, "bond") THEN 1
       ELSE IF obj_scale = "planetary" /\ matched_field \in PeriodicityFields THEN 2
       ELSE IF obj_scale = "stellar" /\ matched_field \in PeriodicityFields THEN 2
       ELSE IF obj_scale = "galactic" /\ Contains(matched_field, "rotation") THEN 2
       ELSE 0)

\* The loop's pass that counts only a field of the criterion's own name
CriterionStep_DirectOnly(obj_scale, items, criterion, acc) ==
    LET m == FirstIndex({i \in DOMAIN items : items[i].k = criterion.field})
    IN IF m = 0 \/ items[m].v.t = "null"
       THEN acc
       ELSE LET match_score == MatchScore(criterion, items[m].v)
                hit == match_score > 0
            IN [score |-> acc.score
                          + (IF hit THEN match_score * criterion.priority ELSE 0)
                          + ScaleBonus(obj_scale, items[m].k),
                criteria_matched |-> acc.criteria_matched + (IF hit THEN 1 ELSE 0),
                periodicity_matched |->
                    acc.periodicity_matched
                    + (IF hit /\ items[m].k \in PeriodicityFields THEN 1 ELSE 0)]

\* One pass of the loop over the criteria (lines 134-239); acc holds score,
\* criteria_matched and periodicity_matched
CriterionStep(obj_scale, items, criterion, acc) ==
    LET m == MatchedIndex(items, criterion.field)
    IN IF m = 0 \/ items[m].v.t = "null"
       THEN IF /\ criterion.kind = "exists"
               /\ criterion.field \in PeriodicityFields
               /\ \E i \in DOMAIN items : SuggestsPeriodicity(items[i].k)
            THEN [score |-> acc.score + 2 * criterion.priority,
                  criteria_matched |-> acc.criteria_matched + 1,
                  periodicity_matched |-> acc.periodicity_matched + 1]
            ELSE acc
       ELSE LET matched_field == items[m].k
                match_score == MatchScore(criterion, items[m].v)
                hit == match_score > 0
            IN [score |-> acc.score
                          + (IF hit THEN match_score * criterion.priority ELSE 0)
                          + ScaleBonus(obj_scale, matched_field),
                criteria_matched |-> acc.criteria_matched + (IF hit THEN 1 ELSE 0),
                periodicity_matched |->
                    acc.periodicity_matched
                    + (IF hit /\ matched_field \in PeriodicityFields THEN 1 ELSE 0)]

RECURSIVE CriteriaLoop(_, _, _, _)
CriteriaLoop(obj_scale, items, c, acc) ==
    IF c > Len(Criteria) THEN acc
    ELSE CriteriaLoop(obj_scale, items, c + 1,
                      CriterionStep(obj_scale, items, Criteria[c], acc))

Min(a, b) == IF a <= b THEN a ELSE b

\* The base score of the earlier version of the detector (3 points)
RawScore_BaseThree(obj) ==
    LET obj_scale == IF "scale" \in obj.has THEN obj.scale ELSE ""
        base == IF obj_scale \in PreferredScales THEN 3 ELSE 0
        acc == CriteriaLoop(obj_scale, obj.data.items, 1,
                            [score |-> base, criteria_matched |-> 0,
                             periodicity_matched |-> 0])
        multi == IF acc.criteria_matched >= 4 THEN 4
                 ELSE IF acc.criteria_matched >= 3 THEN 3
                 ELSE IF acc.criteria_matched >= 2 THEN 1
                 ELSE 0
        periodic == IF acc.periodicity_matched >= 2 THEN 3
                    ELSE IF acc.periodicity_matched >= 1 THEN 1
                    ELSE 0
    IN acc.score + multi + periodic

\* _evaluate_candidate up to the normalisation (lines 79-253); obj has a
\* data key
RawScore(obj) ==
    LET obj_scale == IF "scale" \in obj.has THEN obj.scale ELSE ""
        base == IF obj_scale \in PreferredScales THEN 1 ELSE 0
        acc == CriteriaLoop(obj_scale, obj.data.items, 1,
                            [score |-> base, criteria_matched |-> 0,
                             periodicity_matched |-> 0])
        multi == IF acc.criteria_matched >= 4 THEN 4
                 ELSE IF acc.criteria_matched >= 3 THEN 3
                 ELSE IF acc.criteria_matched >= 2 THEN 1
                 ELSE 0
        periodic == IF acc.periodicity_matched >= 2 THEN 3
                    ELSE IF acc.periodicity_matched >= 1 THEN 1
                    ELSE 0
    IN acc.score + multi + periodic

\* _evaluate_candidate without the normalisation to 0-10
EvaluateCandidate_NoClamp(obj) ==
    IF obj.has = {} \/ "data" \notin obj.has THEN 0
    ELSE RawScore(obj)

\* CrystalDetector._evaluate_candidate
EvaluateCandidate(obj) ==
    IF obj.has = {} \/ "data" \notin obj.has THEN 0
    ELSE Min(10, RawScore(obj))

\* The objects the detector is run on
DetQ == Elem(TRUE, AllKeys, "q", "quantum", "Q", Dict(<<>>))
DetP == Elem(TRUE, AllKeys, "p", "planetary", "P", Dict(<<>>))
DetU == Elem(TRUE, AllKeys, "u", "bogus", "U", Dict(<<>>))
DetN == Elem(TRUE, AllKeys \ {"data"}, "n", "stellar", "N", NotADict)
DetEarth ==
    Elem(TRUE, AllKeys, "E1", "planetary", "Earth",
         Dict(<<Pair("orbital_period", Num(3652))>>))
DetSpin ==
    Elem(TRUE, AllKeys, "s", "quantum", "S",
         Dict(<<Pair("spin", Str("1/2")), Pair("lifetime", Str("150 years"))>>))
DetHidden ==
    Elem(TRUE, AllKeys, "h", "human", "H", Dict(<<Pair("Cycle_len", Num(50))>>))
DetMol ==
    Elem(TRUE, AllKeys, "m", "molecular", "M",
         Dict(<<Pair("symmetry", Str("Breaking C2")), Pair("bond_angle", Num(1045))>>))
DetAge ==
    Elem(TRUE, AllKeys, "a", "bogus", "A", Dict(<<Pair("age", Num(50))>>))
DetNull ==
    Elem(TRUE, AllKeys, "z", "galactic", "Z",
         Dict(<<Pair("period", Null), Pair("rotation_velocity", Num(2200))>>))
DetShort ==
    Elem(TRUE, AllKeys, "l", "atomic", "L",
         Dict(<<Pair("lifetime", Str("99.9 s")), Pair("spin", Num(20)),
                Pair("energy", Str("-13.6 eV"))>>))
DetMass ==
    Elem(TRUE, AllKeys, "w", "cellular", "W", Dict(<<Pair("mass", Num(50))>>))

DetPool ==
    { DetQ, DetP, DetU, DetN, DetEarth, DetSpin, DetHidden, DetMol, DetAge,
      DetNull, DetShort, DetMass }

\* The objects of the files the main window is made to open when its
\* handlers are exercised: two stellar records with numeric features (in
\* tenths)
WinStar1 ==
    Elem(TRUE, AllKeys, "w1", "stellar", "W1",
         Dict(<<Pair("mass", Num(1)), Pair("radius", Num(1))>>))
WinStar2 ==
    Elem(TRUE, AllKeys, "w2", "stellar", "W2",
         Dict(<<Pair("mass", Num(2)), Pair("radius", Num(0))>>))

WinPool == {WinStar1, WinStar2}

\* _evaluate_candidate of every object of the pools, computed once
\* Objects holding one field of the periodicity category, of every name and
\* kind of value, alone or next to a field of another category
PeriodicScales == {"quantum", "bogus"}
PeriodicValues == {Num(0), Str("2 days"), Null}
PeriodicOthers == {<<>>, <<Pair("mass", Num(50))>>, <<Pair("spin", Str("1/2"))>>}

PeriodicObject(scale, field, value, others) ==
    Elem(TRUE, AllKeys, "p", scale, "P",
         Dict(others \o <<Pair(field, value)>>))

PeriodicPool ==
    {PeriodicObject(scale, field, value, others) :
        scale \in PeriodicScales, field \in PeriodicityFields,
        value \in PeriodicValues, others \in PeriodicOthers}

ScoreTable ==
    [o \in DetPool \cup WinPool \cup PeriodicPool |-> EvaluateCandidate(o)]

\* _generate_explanation: the confidence tier of a score
Confidence(score) ==
    IF score >= 9 THEN "Bardzo wysoki"
    ELSE IF score >= 7 THEN "Wysoki"
    ELSE IF score >= 4 THEN "Sredni"
    ELSE IF score >= 2 THEN "Niski"
    ELSE "Bardzo niski"

Candidate(obj, score) ==
    [object |-> obj, score |-> score, confidence |-> Confidence(score)]

\* The loop keeping only the objects above the candidate threshold
RECURSIVE CandidatesLoop_Threshold(_, _, _)
CandidatesLoop_Threshold(objs, i, acc) ==
    IF i > Len(objs) THEN acc
    ELSE LET score == ScoreTable[objs[i]]
         IN CandidatesLoop_Threshold(objs, i + 1,
                           IF score >= 3 THEN Append(acc, Candidate(objs[i], score))
                           ELSE acc)

\* The for loop of find_candidates (lines 63-72)
RECURSIVE CandidatesLoop(_, _, _)
CandidatesLoop(objs, i, acc) ==
    IF i > Len(objs) THEN acc
    ELSE LET score == ScoreTable[objs[i]]
         IN CandidatesLoop(objs, i + 1,
                           IF score > 0 THEN Append(acc, Candidate(objs[i], score))
                           ELSE acc)

\* A sort that puts an element in front of the elements of equal score
InsertByScore_Unstable(sorted, c) ==
    LET k == Cardinality({i \in DOMAIN sorted : sorted[i].score > c.score})
    IN SubSeq(sorted, 1, k) \o <<c>> \o SubSeq(sorted, k + 1, Len(sorted))

\* list.sort(key=score, reverse=True) is stable: an element goes behind
\* every element whose score is at least its own
InsertByScore(sorted, c) ==
    LET k == Cardinality({i \in DOMAIN sorted : sorted[i].score >= c.score})
    IN SubSeq(sorted, 1, k) \o <<c>> \o SubSeq(sorted, k + 1, Len(sorted))

RECURSIVE SortByScore(_, _, _)
SortByScore(cands, i, sorted) ==
    IF i > Len(cands) THEN sorted
    ELSE SortByScore(cands, i + 1, InsertByScore(sorted, cands[i]))

\* CrystalDetector.find_candidates
FindCandidates(objs) == SortByScore(CandidatesLoop(objs, 1, <<>>), 1, <<>>)

InitDetect ==
    /\ InitLoader
    /\ InitWindow
    /\ InitDataModel
    /\ InitViewsIdle
    /\ InitExportIdle
    /\ InitCorrIdle
    /\ InitValidateIdle
    /\ InitSimilarIdle
    /\ det_objects \in SeqsUpTo(DetPool, MaxDetLen)
    /\ candidates = <<>>
    /\ pc = "call"

CallFindCandidates ==
    /\ pc = "call"
    /\ candidates' = FindCandidates(det_objects)
    /\ pc' = "done"
    /\ UNCHANGED <<loaderVars, windowVars, viewVars, modelVars, exportVars, corrVars, validateVars, similarVars, det_objects>>

NextDetect == CallFindCandidates

SpecDetect == InitDetect /\ [][NextDetect]_vars

\* find_candidates called with one object of the periodicity pool
InitPeriodic ==
    /\ InitLoader
    /\ InitWindow
    /\ InitDataModel
    /\ InitViewsIdle
    /\ InitExportIdle
    /\ InitCorrIdle
    /\ InitValidateIdle
    /\ InitSimilarIdle
    /\ det_objects \in {<<o>> : o \in PeriodicPool}
    /\ candidates = <<>>
    /\ pc = "call"

SpecPeriodic == InitPeriodic /\ [][NextDetect]_vars

-----------------------------------------------------------------------------
(* SimilarityFinder *)

\* SimilarityFinder._is_numeric_field
IsNumericField(value) ==
    IF value.t = "num" THEN TRUE
    ELSE IF value.t = "str"
    THEN LET numeric_str == NumericChars(value.s)
         IN numeric_str # "" /\ ParseFloat(numeric_str).ok
    ELSE FALSE

\* similar_fields_map, as the reverse map field_to_category ("" when the
\* field is in no group)
FieldToCategory(field) ==
    IF field \in {"mass", "stellar_mass", "mass_mean", "rest_mass"} THEN "mass"
    ELSE IF field \in {"radius", "mean_radius", "comoving_diameter",
                       "disk_diameter", "diameter", "soma_diameter"}
    THEN "radius"
    ELSE IF field \in {"energy", "luminosity", "first_ionization_energy"}
    THEN "energy"
    ELSE IF field \in {"age", "orbital_period", "lifetime",
                       "life_expectancy_global"}
    THEN "time"
    ELSE IF field \in {"mean_temperature", "temperature_anisotropy_rms"}
    THEN "temperature"
    ELSE ""

\* The keys of the numeric members of a dict, in dict order
RECURSIVE NumericKeys(_)
NumericKeys(items) ==
    IF items = <<>> THEN <<>>
    ELSE (IF IsNumericField(Head(items).v) THEN <<Head(items).k>> ELSE <<>>)
         \o NumericKeys(Tail(items))

\* Adds the keys of ks that fields does not hold yet
RECURSIVE AddKeys(_, _)
AddKeys(fields, ks) ==
    IF ks = <<>> THEN fields
    ELSE AddKeys(IF Head(ks) \in Range(fields) THEN fields
                 ELSE Append(fields, Head(ks)),
                 Tail(ks))

\* Lines 132-139: the numeric fields of all objects.  The code builds a
\* set and lists it in hash order; the order of the columns changes no
\* distance, and the fields are listed here in order of first appearance.
RECURSIVE AllNumericFields(_, _)
AllNumericFields(all_objects, fields) ==
    IF all_objects = <<>> THEN fields
    ELSE AllNumericFields(Tail(all_objects),
                          IF "data" \in Head(all_objects).has
                          THEN AddKeys(fields, NumericKeys(Head(all_objects).data.items))
                          ELSE fields)

\* Lines 124-139
SourceFields(source_object, all_objects) ==
    LET own == IF source_object.has # {} /\ "data" \in source_object.has
               THEN NumericKeys(source_object.data.items)
               ELSE <<>>
    IN IF own # <<>> THEN own ELSE AllNumericFields(all_objects, <<>>)

\* Lines 175-204 for one field: the feature value and whether the field
\* was found
FieldFeature(items, field) ==
    IF HasField(items, field)
    THEN LET value == items[FirstIndex({i \in DOMAIN items : items[i].k = field})].v
             numeric_value == ExtractNumericValue(value)
         IN IF numeric_value.ok THEN [x |-> numeric_value.n, found |-> 1]
            ELSE [x |-> 0, found |-> 0]
    ELSE IF FieldToCategory(field) # ""
    THEN LET category == FieldToCategory(field)
             m == FirstIndex({i \in DOMAIN items :
                                 /\ FieldToCategory(items[i].k) = category
                                 /\ ExtractNumericValue(items[i].v).ok})
         IN IF m # 0 THEN [x |-> ExtractNumericValue(items[m].v).n, found |-> 1]
            ELSE [x |-> 0, found |-> 0]
    ELSE [x |-> 0, found |-> 0]

\* obj_features and fields_found of one object
ObjFeatures(obj, source_fields) ==
    LET f == [j \in DOMAIN source_fields |->
                 FieldFeature(obj.data.items, source_fields[j])]
    IN [row |-> [j \in DOMAIN source_fields |-> f[j].x],
        fields_found |-> Cardinality({j \in DOMAIN source_fields : f[j].found = 1})]

\* The loop of lines 166-209: the objects with at least 2 fields found and
\* their feature rows
RECURSIVE FeatureLoop(_, _, _)
FeatureLoop(all_objects, source_fields, acc) ==
    IF all_objects = <<>> THEN acc
    ELSE LET obj == Head(all_objects)
             rest == Tail(all_objects)
         IN IF "data" \notin obj.has
            THEN FeatureLoop(rest, source_fields, acc)
            ELSE LET of == ObjFeatures(obj, source_fields)
                 IN FeatureLoop(rest, source_fields,
                                IF of.fields_found >= 2
                                THEN [features |-> Append(acc.features, of.row),
                                      objects |-> Append(acc.objects, obj)]
                                ELSE acc)

\* SimilarityFinder._extract_features
ExtractFeatures(source_object, all_objects) ==
    FeatureLoop(all_objects, SourceFields(source_object, all_objects),
                [features |-> <<>>, objects |-> <<>>])

RECURSIVE SumSeq(_)
SumSeq(q) == IF q = <<>> THEN 0 ELSE Head(q) + SumSeq(Tail(q))

RECURSIVE ProdSeq(_)
ProdSeq(q) == IF q = <<>> THEN 1 ELSE Head(q) * ProdSeq(Tail(q))

\* StandardScaler.fit_transform, in exact arithmetic.  With N rows, column
\* sum S and V = N * sum(x^2) - S^2 (N^2 times the variance), the scaled
\* value of x is (N*x - S) / sqrt(V), and 0 in a column of zero variance
\* (the scaler divides such a column by 1).  d holds the numerators N*x - S
\* and w the weight of each column in a scalar product, the product of the
\* V of the other columns, so that every scalar product of two scaled rows
\* is an integer multiplied by the same positive constant.
Scaled(features) ==
    LET N == Len(features)
        cols == DOMAIN features[1]
        S == [j \in cols |-> SumSeq([i \in 1..N |-> features[i][j]])]
        V == [j \in cols |->
                 N * SumSeq([i \in 1..N |-> features[i][j] * features[i][j]])
                 - S[j] * S[j]]
    IN [d |-> [i \in 1..N |-> [j \in cols |-> N * features[i][j] - S[j]]],
        w |-> [j \in cols |->
                  IF V[j] = 0 THEN 0
                  ELSE ProdSeq([k \in cols |->
                                   IF k = j \/ V[k] = 0 THEN 1 ELSE V[k]])]]

Dot(sc, a, b) ==
    SumSeq([j \in DOMAIN sc.w |-> sc.d[a][j] * sc.d[b][j] * sc.w[j]])

\* euclidean_distances: the squared distance of rows a and b
SqDist(sc, a, b) ==
    SumSeq([j \in DOMAIN sc.w |->
               (sc.d[a][j] - sc.d[b][j]) * (sc.d[a][j] - sc.d[b][j]) * sc.w[j]])

\* cosine_similarity(src, a) < cosine_similarity(src, b).  The similarity
\* is Dot / (|src| |a|), and 0 for a row of norm 0.
CosineLess(sc, src, a, b) ==
    LET pa == IF Dot(sc, a, a) = 0 THEN 0 ELSE Dot(sc, src, a)
        pb == IF Dot(sc, b, b) = 0 THEN 0 ELSE Dot(sc, src, b)
    IN IF pa <= 0 /\ pb >= 0 THEN pa < 0 \/ pb > 0
       ELSE IF pa > 0 /\ pb > 0
       THEN pa * pa * Dot(sc, b, b) < pb * pb * Dot(sc, a, a)
       ELSE IF pa < 0 /\ pb < 0
       THEN pa * pa * Dot(sc, b, b) > pb * pb * Dot(sc, a, a)
       ELSE FALSE

\* The entry of a precedes the entry of b in the row of the source
RowLess(sc, metric, src, a, b) ==
    IF metric = "cosine" THEN CosineLess(sc, src, a, b)
    ELSE SqDist(sc, src, a) < SqDist(sc, src, b)

IndexOrders(N) ==
    {f \in [1..N -> 1..N] : \A i, j \in 1..N : i # j => f[i] # f[j]}

\* np.argsort(row): the orders that sort the row ascending.  The default
\* sort kind is not stable, so equal entries come in any order.
ArgSorts(sc, metric, src) ==
    LET N == Len(sc.d)
    IN {f \in IndexOrders(N) :
           \A p, q \in 1..N : p < q => ~RowLess(sc, metric, src, f[q], f[p])}

Reverse(q) == [i \in DOMAIN q |-> q[Len(q) + 1 - i]]

\* q[1:n+2]: one index more than asked for
Slice1_OneMore(q, n) == SubSeq(q, 2, Min(Len(q), n + 2))

\* q[1:n+1] of Python, for n >= 0
Slice1(q, n) == SubSeq(q, 2, Min(Len(q), n + 1))

\* Index of the first object with the id of the source, 0 for None
SourceIdx(objs, source_id) ==
    FirstIndex({i \in DOMAIN objs : objs[i].id = source_id})

\* find_similar giving up unless three objects have features
FindSimilar_NeedsThree(source_object, all_objects, n, metric) ==
    IF source_object.has = {} \/ all_objects = <<>> THEN {<<>>}
    ELSE LET ef == ExtractFeatures(source_object, all_objects)
         IN IF Len(ef.features) <= 2 THEN {<<>>}
            ELSE LET source_idx == SourceIdx(ef.objects, source_object.id)
                 IN IF source_idx = 0 THEN {<<>>}
                    ELSE LET sc == Scaled(ef.features)
                         IN { LET ranked == IF metric = "cosine"
                                            THEN Reverse(order) ELSE order
                                  indices == Slice1(ranked, n)
                              IN <<source_object>>
                                 \o [k \in DOMAIN indices |-> ef.objects[indices[k]]]
                              : order \in ArgSorts(sc, metric, source_idx) }

\* SimilarityFinder.find_similar: the lists it can return
FindSimilar(source_object, all_objects, n, metric) ==
    IF source_object.has = {} \/ all_objects = <<>> THEN {<<>>}
    ELSE LET ef == ExtractFeatures(source_object, all_objects)
         IN IF Len(ef.features) <= 1 THEN {<<>>}
            ELSE LET source_idx == SourceIdx(ef.objects, source_object.id)
                 IN IF source_idx = 0 THEN {<<>>}
                    ELSE LET sc == Scaled(ef.features)
                         IN { LET ranked == IF metric = "cosine"
                                            THEN Reverse(order) ELSE order
                                  indices == Slice1(ranked, n)
                              IN <<source_object>>
                                 \o [k \in DOMAIN indices |-> ef.objects[indices[k]]]
                              : order \in ArgSorts(sc, metric, source_idx) }

\* The objects the similarity finder is run on.  Numbers are in tenths.
SimObj(id, items) == Elem(TRUE, AllKeys, id, "stellar", id, Dict(items))

SimA == SimObj("s1", <<Pair("mass", Num(1)), Pair("radius", Num(1))>>)
SimTwin == SimObj("s2", <<Pair("mass", Num(1)), Pair("radius", Num(1))>>)
SimC == SimObj("s3", <<Pair("mass", Num(2)), Pair("radius", Num(0))>>)
SimAlias ==
    SimObj("s4", <<Pair("stellar_mass", Str("0.2 kg")), Pair("radius", Num(2))>>)
SimZero == SimObj("s5", <<Pair("mass", Num(0)), Pair("radius", Num(0))>>)
SimOneField == SimObj("s6", <<Pair("note", Str("n/a")), Pair("spin", Str("1/2"))>>)
SimNoNumber == SimObj("s7", <<Pair("note", Str("n/a"))>>)
SimText == SimObj("s8", <<Pair("mass", Str("heavy")), Pair("radius", Num(1))>>)

\* A second record with the id of SimNoNumber: load_file compares ids only
\* in an append load, against the ids loaded before, so the records of one
\* file can share an id
SimSameId ==
    Elem(TRUE, AllKeys, "s7", "stellar", "s7b",
         Dict(<<Pair("mass", Num(2)), Pair("radius", Num(1))>>))

SimPool ==
    {SimA, SimTwin, SimC, SimAlias, SimZero, SimOneField, SimNoNumber, SimText,
     SimSameId}

\* Lists of pairwise different objects
DistinctSeqs(S, n) ==
    {q \in SeqsUpTo(S, n) : \A i, j \in DOMAIN q : i # j => q[i] # q[j]}

Metrics == {"cosine", "euclidean"}

\* on_find_similar hands over the object selected in the tree, one of the
\* loaded objects, and the loaded objects
InitSimilar ==
    /\ InitLoader
    /\ InitWindow
    /\ InitDataModel
    /\ InitViewsIdle
    /\ InitExportIdle
    /\ InitCorrIdle
    /\ InitValidateIdle
    /\ InitDetectIdle
    /\ \E all_objects \in DistinctSeqs(SimPool, MaxSimLen) :
       \E i \in DOMAIN all_objects, n \in 0..MaxN, metric \in Metrics :
           sim_args = [source |-> all_objects[i], all_objects |-> all_objects,
                       n |-> n, metric |-> metric]
    /\ sim_result = <<>>
    /\ pc = "call"

CallFindSimilar ==
    /\ pc = "call"
    /\ sim_result' \in FindSimilar(sim_args.source, sim_args.all_objects,
                                   sim_args.n, sim_args.metric)
    /\ pc' = "done"
    /\ UNCHANGED <<loaderVars, windowVars, viewVars, modelVars, exportVars, corrVars, validateVars, detectVars, sim_args>>

NextSimilar == CallFindSimilar

SpecSimilar == InitSimilar /\ [][NextSimilar]_vars

-----------------------------------------------------------------------------
(* HeatmapView and NetGraphView: calculate_property_similarity *)

\* HeatmapView.get_property_fields
HeatmapPropertyFields(property_type) ==
    IF property_type = "periodicity"
    THEN <<"period", "frequency", "orbital_period", "rotation_period",
           "oscillation_period", "cycle_duration", "peak_frequency",
           "rotation_curve_flat_velocity", "rotation_velocity",
           "angular_velocity">>
    ELSE IF property_type = "energy"
    THEN <<"energy", "luminosity", "first_ionization_energy",
           "electron_affinity", "mean_temperature", "critical_density">>
    ELSE IF property_type = "mass"
    THEN <<"mass", "stellar_mass", "rest_mass", "density",
           "molecular_weight", "atomic_radius">>
    ELSE <<>>

\* The property_fields table of NetGraphView.calculate_edges
NetGraphPropertyFields(property_type) ==
    IF property_type = "periodicity"
    THEN <<"period", "frequency", "orbital_period", "rotation_period",
           "oscillation_period", "cycle_duration", "peak_frequency",
           "rotation_curve_flat_velocity", "rotation_velocity">>
    ELSE IF property_type = "energy"
    THEN <<"energy", "luminosity", "first_ionization_energy",
           "electron_affinity">>
    ELSE IF property_type = "mass"
    THEN <<"mass", "stellar_mass", "rest_mass">>
    ELSE <<>>

SemanticTerms == <<"period", "frequency", "mass", "energy", "time", "cycle">>

\* s[:5]
Prefix5(s) == SubSeq(s, 1, Min(5, Len(s)))

\* The condition of the second matching loop ("semantic") and of the third
\* ("substring") on a pair of field names
FieldsAlike(stage, field1, field2) ==
    IF stage = "semantic"
    THEN \E lower1 \in {Lower(field1)}, lower2 \in {Lower(field2)} :
             \E t \in DOMAIN SemanticTerms :
                 /\ Contains(lower1, SemanticTerms[t])
                 /\ Contains(lower2, SemanticTerms[t])
    ELSE (Prefix5(field1) = Prefix5(field2) /\ Len(field1) > 4)
         \/ field1 = field2

\* The data members the compared objects are built from.  Numbers are in
\* tenths.
CorrPairs ==
    { Pair("energy", Num(10)), Pair("Energy", Num(0 - 20)),
      Pair("mass", Num(10)), Pair("rest_mass", Str("2 u")),
      Pair("charge", Num(0)), Pair("charge_radius", Num(20)) }

CorrFields == {p.k : p \in CorrPairs}

\* FieldsAlike on the field names in use, evaluated once
AlikeTable ==
    [stage \in {"semantic", "substring"} |->
        [field1 \in CorrFields |->
            {field2 \in CorrFields : FieldsAlike(stage, field1, field2)}]]

\* The nested loops over data1.items() and data2.items(): each field of
\* data1 is paired with the first field of data2 alike to it
RECURSIVE MatchPairs(_, _, _)
MatchPairs(stage, items1, items2) ==
    IF items1 = <<>> THEN <<>>
    ELSE LET field1 == Head(items1).k
             m == FirstIndex({j \in DOMAIN items2 :
                                 items2[j].k \in AlikeTable[stage][field1]})
         IN (IF m # 0 THEN << <<field1, items2[m].k>> >> ELSE <<>>)
            \o MatchPairs(stage, Tail(items1), items2)

\* matching_props: the fields of property_fields held by both objects
\* (weight 0.5), or else the pairs of the semantic loop, or else the pairs
\* of the substring loop (weight 0.3)
MatchingProps(items1, items2, property_fields) ==
    LET exact == SelectSeq(property_fields,
                           LAMBDA f : HasField(items1, f) /\ HasField(items2, f))
        same == [i \in DOMAIN exact |-> <<exact[i], exact[i]>>]
        semantic == MatchPairs("semantic", items1, items2)
    IN IF exact # <<>> THEN [weight |-> 5, pairs |-> same]
       ELSE IF semantic # <<>> THEN [weight |-> 3, pairs |-> semantic]
       ELSE [weight |-> 3, pairs |-> MatchPairs("substring", items1, items2)]

\* data.get(field)
DataGet(items, field) ==
    IF HasField(items, field)
    THEN items[FirstIndex({i \in DOMAIN items : items[i].k = field})].v
    ELSE Null

\* extract_numeric_value of the two views
ViewExtractNumericValue(value) ==
    IF value.t = "null" THEN [ok |-> FALSE, n |-> 0]
    ELSE IF value.t = "num" THEN [ok |-> TRUE, n |-> value.n]
    ELSE IF value.t = "str"
    THEN LET numeric_str == NumericChars(value.s)
         IN IF numeric_str # "" THEN ParseFloat(numeric_str)
            ELSE [ok |-> FALSE, n |-> 0]
    ELSE [ok |-> FALSE, n |-> 0]

\* The similarity is kept as the exact fraction n / d of tenths, d > 0.
\* One round of the scoring loop: similarity += (min_val / max_val) * weight
RECURSIVE SimilarityLoop(_, _, _, _, _)
SimilarityLoop(pairs, weight, items1, items2, acc) ==
    IF pairs = <<>> THEN acc
    ELSE LET value1 == ViewExtractNumericValue(DataGet(items1, Head(pairs)[1]))
             value2 == ViewExtractNumericValue(DataGet(items2, Head(pairs)[2]))
             max_val == IF value1.n >= value2.n THEN value1.n ELSE value2.n
             min_val == IF value1.n <= value2.n THEN value1.n ELSE value2.n
         IN SimilarityLoop(Tail(pairs), weight, items1, items2,
                IF value1.ok /\ value2.ok /\ max_val > 0
                THEN [n |-> acc.n * max_val + weight * min_val * acc.d,
                      d |-> acc.d * max_val]
                ELSE acc)

\* calculate_property_similarity(obj1, obj2, property_fields); floor is the
\* value returned for two objects of one scale without matching fields
\* (0.3 in the heatmap view, 0.2 in the network graph view)
CalculatePropertySimilarity(obj1, obj2, property_fields, floor) ==
    LET data1 == obj1.data.items
        data2 == obj2.data.items
        matching_props == MatchingProps(data1, data2, property_fields)
    IN IF matching_props.pairs = <<>>
       THEN IF obj1.scale = obj2.scale THEN [n |-> floor, d |-> 1]
            ELSE [n |-> 1, d |-> 1]
       ELSE LET summed == SimilarityLoop(matching_props.pairs,
                                         matching_props.weight, data1, data2,
                                         [n |-> 0, d |-> 1])
                similarity == IF obj1.scale = obj2.scale
                              THEN [n |-> summed.n + 3 * summed.d, d |-> summed.d]
                              ELSE summed
            IN IF similarity.n > 10 * similarity.d THEN [n |-> 10, d |-> 1]
               ELSE similarity

\* The heatmap view using the floor of the network graph view
HeatmapSimilarity_NetGraphFloor(obj1, obj2, property_type) ==
    CalculatePropertySimilarity(obj1, obj2,
                                HeatmapPropertyFields(property_type), 2)

\* HeatmapView.calculate_correlation_matrix: one entry of the matrix
HeatmapSimilarity(obj1, obj2, property_type) ==
    CalculatePropertySimilarity(obj1, obj2,
                                HeatmapPropertyFields(property_type), 3)

\* NetGraphView.calculate_edges: the weight of one pair
NetGraphSimilarity(obj1, obj2, property_type) ==
    CalculatePropertySimilarity(obj1, obj2,
                                NetGraphPropertyFields(property_type), 2)

\* The data maps: members with pairwise different keys, in any order
CorrData ==
    {q \in SeqsUpTo(CorrPairs, MaxCorrFields) :
        \A i, j \in DOMAIN q : i # j => q[i].k # q[j].k}

PropertyTypes == {"periodicity", "energy", "mass"}

InitCorr ==
    /\ InitLoader
    /\ InitWindow
    /\ InitDataModel
    /\ InitViewsIdle
    /\ InitExportIdle
    /\ InitValidateIdle
    /\ InitDetectIdle
    /\ InitSimilarIdle
    /\ \E data1 \in CorrData, data2 \in CorrData, scale2 \in {"quantum", "atomic"},
          property_type \in PropertyTypes, view \in {"heatmap", "netgraph"} :
           corr_args = [obj1 |-> Elem(TRUE, AllKeys, "q1", "quantum", "Q1", Dict(data1)),
                        obj2 |-> Elem(TRUE, AllKeys, "q2", scale2, "Q2", Dict(data2)),
                        property_type |-> property_type, view |-> view]
    /\ corr_result = [n |-> 0, d |-> 1]
    /\ pc = "call"

CallHeatmapSimilarity ==
    /\ pc = "call"
    /\ corr_args.view = "heatmap"
    /\ corr_result' = HeatmapSimilarity(corr_args.obj1, corr_args.obj2,
                                        corr_args.property_type)
    /\ pc' = "done"
    /\ UNCHANGED <<loaderVars, windowVars, viewVars, modelVars, exportVars, validateVars, detectVars, similarVars, corr_args>>

CallNetGraphSimilarity ==
    /\ pc = "call"
    /\ corr_args.view = "netgraph"
    /\ corr_result' = NetGraphSimilarity(corr_args.obj1, corr_args.obj2,
                                         corr_args.property_type)
    /\ pc' = "done"
    /\ UNCHANGED <<loaderVars, windowVars, viewVars, modelVars, exportVars, validateVars, detectVars, similarVars, corr_args>>

NextCorr == CallHeatmapSimilarity \/ CallNetGraphSimilarity

SpecCorr == InitCorr /\ [][NextCorr]_vars

-----------------------------------------------------------------------------
(* JSON text: json.dump(data, indent=2, ensure_ascii=False) and json.load *)

\* The escapes json.dump writes inside a string
RECURSIVE EscapeStr(_)
EscapeStr(s) ==
    IF Len(s) = 0 THEN ""
    ELSE LET c == SubSeq(s, 1, 1)
         IN (IF c = "\"" THEN "\\\""
             ELSE IF c = "\\" THEN "\\\\"
             ELSE IF c = "\n" THEN "\\n"
             ELSE IF c = "\t" THEN "\\t"
             ELSE c)
            \o EscapeStr(SubSeq(s, 2, Len(s)))

DumpString(s) == "\"" \o EscapeStr(s) \o "\""

\* A scalar as json.dump writes it.  The model's numbers do not tell int
\* from float: a whole number is written without a fraction.
DumpScalar(v) ==
    IF v.t = "null" THEN "null"
    ELSE IF v.t = "str" THEN DumpString(v.s)
    ELSE ToStr(v)

RECURSIVE Spaces(_)
Spaces(k) == IF k = 0 THEN "" ELSE " " \o Spaces(k - 1)

\* The lines of a container, separated by ",\n"
RECURSIVE JoinLines(_)
JoinLines(lines) ==
    IF lines = <<>> THEN ""
    ELSE IF Len(lines) = 1 THEN lines[1]
    ELSE lines[1] \o ",\n" \o JoinLines(Tail(lines))

\* A dict of scalars written at the given indentation
DumpDataDict(items, indent) ==
    IF items = <<>> THEN "{}"
    ELSE "{\n"
         \o JoinLines([i \in DOMAIN items |->
                          Spaces(indent + 2) \o DumpString(items[i].k) \o ": "
                          \o DumpScalar(items[i].v)])
         \o "\n" \o Spaces(indent) \o "}"

\* The members of an object, in the order of its keys
ObjectMembers(obj, indent) ==
    (IF "id" \in obj.has
     THEN <<Spaces(indent + 2) \o "\"id\": " \o DumpString(obj.id)>> ELSE <<>>)
    \o (IF "scale" \in obj.has
        THEN <<Spaces(indent + 2) \o "\"scale\": " \o DumpString(obj.scale)>>
        ELSE <<>>)
    \o (IF "name" \in obj.has
        THEN <<Spaces(indent + 2) \o "\"name\": " \o DumpString(obj.name)>>
        ELSE <<>>)
    \o (IF "data" \in obj.has
        THEN <<Spaces(indent + 2) \o "\"data\": "
               \o DumpDataDict(obj.data.items, indent + 2)>>
        ELSE <<>>)

DumpObject(obj, indent) ==
    IF ObjectMembers(obj, indent) = <<>> THEN "{}"
    ELSE "{\n" \o JoinLines(ObjectMembers(obj, indent))
         \o "\n" \o Spaces(indent) \o "}"

\* json.dump({"objects": objs}, jsonfile, indent=2, ensure_ascii=False)
DumpJson(objs) ==
    "{\n  \"objects\": "
    \o (IF objs = <<>> THEN "[]"
        ELSE "[\n"
             \o JoinLines([i \in DOMAIN objs |->
                              Spaces(4) \o DumpObject(objs[i], 4)])
             \o "\n  ]")
    \o "\n}"

\* A parsed JSON value: a scalar, a list of values or a dict of members
Node(t, n, s, items) == [t |-> t, n |-> n, s |-> s, items |-> items]

ParseFail(i) == [ok |-> FALSE, val |-> Node("null", 0, "", <<>>), next |-> i]
Parsed(val, next) == [ok |-> TRUE, val |-> val, next |-> next]

CharAt(s, i) == IF i >= 1 /\ i <= Len(s) THEN SubSeq(s, i, i) ELSE ""

Whitespace == {" ", "\n", "\t", "\r"}

\* The first position from i on that holds no whitespace
SkipWs(s, i) ==
    IF \E j \in i..Len(s) : CharAt(s, j) \notin Whitespace
    THEN CHOOSE j \in i..Len(s) :
             /\ CharAt(s, j) \notin Whitespace
             /\ \A k \in i..(j - 1) : CharAt(s, k) \in Whitespace
    ELSE Len(s) + 1

\* The characters of a string literal from position j on, up to the
\* closing quote, with the escapes undone
RECURSIVE ScanString(_, _, _)
ScanString(s, j, acc) ==
    IF j > Len(s) THEN [ok |-> FALSE, str |-> acc, next |-> j]
    ELSE LET c == CharAt(s, j)
             e == CharAt(s, j + 1)
         IN IF c = "\"" THEN [ok |-> TRUE, str |-> acc, next |-> j + 1]
            ELSE IF c = "\\"
            THEN IF e \in {"\"", "\\", "/"} THEN ScanString(s, j + 2, acc \o e)
                 ELSE IF e = "n" THEN ScanString(s, j + 2, acc \o "\n")
                 ELSE IF e = "t" THEN ScanString(s, j + 2, acc \o "\t")
                 ELSE [ok |-> FALSE, str |-> acc, next |-> j]
            ELSE ScanString(s, j + 1, acc \o c)

NumberChars == {"-", "+", ".", "0", "1", "2", "3", "4", "5", "6", "7", "8", "9"}

\* The number literal at position i
ParseNumberAt(s, i) ==
    LET end == IF \E j \in i..Len(s) : CharAt(s, j) \notin NumberChars
               THEN CHOOSE j \in i..Len(s) :
                        /\ CharAt(s, j) \notin NumberChars
                        /\ \A k \in i..(j - 1) : CharAt(s, k) \in NumberChars
               ELSE Len(s) + 1
        number == IF end > i THEN ParseFloat(SubSeq(s, i, end - 1))
                  ELSE [ok |-> FALSE, n |-> 0]
    IN IF number.ok THEN Parsed(Node("num", number.n, "", <<>>), end)
       ELSE ParseFail(i)

RECURSIVE ParseValueAt(_, _)
RECURSIVE ParseMembers(_, _, _)
RECURSIVE ParseItems(_, _, _)

\* The members of a dict from position i on, up to the closing brace
ParseMembers(s, i, acc) ==
    LET k == SkipWs(s, i)
        key == ScanString(s, k + 1, "")
        colon == SkipWs(s, key.next)
        value == ParseValueAt(s, SkipWs(s, colon + 1))
        after == SkipWs(s, value.next)
        members == Append(acc, [k |-> key.str, v |-> value.val])
    IN IF CharAt(s, k) # "\"" \/ ~key.ok \/ CharAt(s, colon) # ":" THEN ParseFail(k)
       ELSE IF ~value.ok THEN ParseFail(value.next)
       ELSE IF CharAt(s, after) = "," THEN ParseMembers(s, after + 1, members)
       ELSE IF CharAt(s, after) = "}"
       THEN Parsed(Node("dict", 0, "", members), after + 1)
       ELSE ParseFail(after)

\* The items of a list from position i on, up to the closing bracket
ParseItems(s, i, acc) ==
    LET value == ParseValueAt(s, SkipWs(s, i))
        after == SkipWs(s, value.next)
        items == Append(acc, value.val)
    IN IF ~value.ok THEN ParseFail(value.next)
       ELSE IF CharAt(s, after) = "," THEN ParseItems(s, after + 1, items)
       ELSE IF CharAt(s, after) = "]"
       THEN Parsed(Node("list", 0, "", items), after + 1)
       ELSE ParseFail(after)

\* The JSON value that starts at position i
ParseValueAt(s, i) ==
    LET c == CharAt(s, i)
    IN IF c = "\""
       THEN LET str == ScanString(s, i + 1, "")
            IN IF str.ok THEN Parsed(Node("str", 0, str.str, <<>>), str.next)
               ELSE ParseFail(i)
       ELSE IF c = "{"
       THEN IF CharAt(s, SkipWs(s, i + 1)) = "}"
            THEN Parsed(Node("dict", 0, "", <<>>), SkipWs(s, i + 1) + 1)
            ELSE ParseMembers(s, i + 1, <<>>)
       ELSE IF c = "["
       THEN IF CharAt(s, SkipWs(s, i + 1)) = "]"
            THEN Parsed(Node("list", 0, "", <<>>), SkipWs(s, i + 1) + 1)
            ELSE ParseItems(s, i + 1, <<>>)
       ELSE IF c = "n"
       THEN IF i + 3 <= Len(s) /\ SubSeq(s, i, i + 3) = "null"
            THEN Parsed(Node("null", 0, "", <<>>), i + 4)
            ELSE ParseFail(i)
       ELSE ParseNumberAt(s, i)

\* json.load on the text of a file: one value and nothing but whitespace
\* after it, or a JSONDecodeError (ok = FALSE)
JsonLoad(text) ==
    LET value == ParseValueAt(text, SkipWs(text, 1))
    IN IF value.ok /\ SkipWs(text, value.next) > Len(text) THEN value
       ELSE ParseFail(value.next)

\* Index of the last member of a parsed dict with the given key (a key
\* written twice keeps its last value), 0 when the key is absent
MemberIndex(node, key) ==
    LET S == {i \in DOMAIN node.items : node.items[i].k = key}
    IN IF S = {} THEN 0 ELSE CHOOSE i \in S : \A j \in S : j <= i

TreeHas(node, key) == node.t = "dict" /\ MemberIndex(node, key) # 0

TreeGet(node, key) == node.items[MemberIndex(node, key)].v

\* A parsed value as the string field of an object ("" when it is no string)
StrOf(node) == IF node.t = "str" THEN node.s ELSE ""

\* A parsed value as a data value of the model (a list or a dict inside a
\* data map is beyond the values of the model)
ToScalar(node) ==
    IF node.t \in {"num", "str"} THEN [t |-> node.t, n |-> node.n, s |-> node.s]
    ELSE Null

ToDataDict(node) ==
    IF node.t = "dict"
    THEN Dict([i \in DOMAIN node.items |->
                  Pair(node.items[i].k, ToScalar(node.items[i].v))])
    ELSE NotADict

\* A parsed element of the objects array as an element of the model
ToElem(node) ==
    IF node.t # "dict" THEN Elem(FALSE, {}, "", "", "", NotADict)
    ELSE Elem(TRUE, {k \in AllKeys : TreeHas(node, k)},
              IF TreeHas(node, "id") THEN StrOf(TreeGet(node, "id")) ELSE "",
              IF TreeHas(node, "scale") THEN StrOf(TreeGet(node, "scale")) ELSE "",
              IF TreeHas(node, "name") THEN StrOf(TreeGet(node, "name")) ELSE "",
              IF TreeHas(node, "data") THEN ToDataDict(TreeGet(node, "data"))
              ELSE NotADict)

ToElems(node) ==
    IF node.t = "list" THEN [i \in DOMAIN node.items |-> ToElem(node.items[i])]
    ELSE <<>>

\* open() and json.load() in load_file, on a file holding text: the
\* document handed to _validate_data, or the JSONDecodeError
ReadJsonFile(text) ==
    LET parsed == JsonLoad(text)
    IN IF ~parsed.ok THEN RawFile("badjson", FALSE, <<>>)
       ELSE IF parsed.val.t = "dict"
       THEN IF TreeHas(parsed.val, "objects")
            THEN RawFile("dict", TRUE, ToElems(TreeGet(parsed.val, "objects")))
            ELSE RawFile("dict", FALSE, <<>>)
       ELSE IF parsed.val.t = "list" THEN RawFile("list", TRUE, ToElems(parsed.val))
       ELSE RawFile("scalar", FALSE, <<>>)

-----------------------------------------------------------------------------
(* DataExporter *)

\* The characters of field names in code point order
CodePoints ==
    " -./0123456789ABCDEFGHIJKLMNOPQRSTUVWXYZ_abcdefghijklmnopqrstuvwxyz"

\* a < b on Python strings
RECURSIVE StrLess(_, _)
StrLess(a, b) ==
    IF Len(b) = 0 THEN FALSE
    ELSE IF Len(a) = 0 THEN TRUE
    ELSE LET ca == IndexOf(CodePoints, SubSeq(a, 1, 1))
             cb == IndexOf(CodePoints, SubSeq(b, 1, 1))
         IN IF ca # cb THEN ca < cb
            ELSE StrLess(SubSeq(a, 2, Len(a)), SubSeq(b, 2, Len(b)))

\* sorted(fields)
RECURSIVE Sorted(_)
Sorted(S) ==
    IF S = {} THEN <<>>
    ELSE LET m == CHOOSE x \in S : \A y \in S : y = x \/ StrLess(x, y)
         IN <<m>> \o Sorted(S \ {m})

\* The set of data field names of all objects
CsvFields(objs) ==
    UNION {IF "data" \in objs[i].has /\ objs[i].data.isdict
           THEN {objs[i].data.items[j].k : j \in DOMAIN objs[i].data.items}
           ELSE {} : i \in DOMAIN objs}

\* The cell csv.writer writes for a value: str(value), and nothing for None
CsvCell(value) == IF value.t = "null" THEN "" ELSE ToStr(value)

\* The row of one object: id, scale, name and one cell per field
CsvRow(obj, fields) ==
    << IF "id" \in obj.has THEN obj.id ELSE "",
       IF "scale" \in obj.has THEN obj.scale ELSE "",
       IF "name" \in obj.has THEN obj.name ELSE "" >>
    \o [j \in DOMAIN fields |->
           IF "data" \in obj.has /\ HasField(obj.data.items, fields[j])
           THEN CsvCell(DataGet(obj.data.items, fields[j]))
           ELSE ""]

\* _export_csv leaving out the cells of the fields an object lacks
ExportCsv_SkipMissing(objs) ==
    LET fields == Sorted(CsvFields(objs))
        headers == <<"ID", "Scale", "Name">> \o fields
    IN <<headers>>
       \o [i \in DOMAIN objs |->
              SelectSeq(CsvRow(objs[i], fields), LAMBDA cell : cell # "")]

\* _export_csv: the rows handed to writer.writerow, the header first
ExportCsv(objs) ==
    LET fields == Sorted(CsvFields(objs))
        headers == <<"ID", "Scale", "Name">> \o fields
    IN <<headers>> \o [i \in DOMAIN objs |-> CsvRow(objs[i], fields)]

\* _export_json writing the objects without their data
ExportJson_DropData(objs) ==
    DumpJson([i \in DOMAIN objs |->
                 [objs[i] EXCEPT !.data = Dict(<<>>)]])

\* _export_json: the text written to the file
ExportJson(objs) == DumpJson(objs)

\* The objects that are exported.  Numbers are in tenths.
ExpQuote ==
    Elem(TRUE, AllKeys, "q\"1", "atomic", "N\\x",
         Dict(<<Pair("note", Str("say \"hi\"")), Pair("spin", Str("1/2")),
                Pair("mass", Num(0 - 15)), Pair("void", Null)>>))
ExpMixed ==
    Elem(TRUE, AllKeys, "m", "stellar", "M, the 2nd",
         Dict(<<Pair("b_field", Num(5)), Pair("Alpha", Str("x,y"))>>))

ExportPool == {ObjA, ObjB, ObjE, ExpQuote, ExpMixed}

\* The loader holding the list objs
InitLoaderHolding(objs) ==
    /\ heap = [r \in Refs |-> IF r = 0 THEN objs ELSE <<>>]
    /\ objects = 0
    /\ current_file = ""
    /\ view_data = [v \in ViewNames |-> NoRef]
    /\ tree_items = <<>>
    /\ actions_enabled = FALSE
    /\ last = [op |-> "init", path |-> "", append |-> FALSE, outcome |-> "",
               ret |-> NoRef]
    /\ loaded = [handler |-> "", new_objects |-> None]

\* The loaded objects are exported, in one of the formats
InitExport ==
    /\ \E objs \in SeqsUpTo(ExportPool, MaxExportLen),
          format_type \in {"csv", "json"} :
           /\ InitLoaderHolding(objs)
           /\ InitWindow
           /\ InitDataModel
           /\ InitViewsIdle
           /\ exp_args = [file_path |-> "out", objects |-> objs,
                          format_type |-> format_type]
    /\ InitValidateIdle
    /\ InitDetectIdle
    /\ InitSimilarIdle
    /\ InitCorrIdle
    /\ exp_file = [format |-> "", text |-> "", rows |-> <<>>]
    /\ exp_ret = ""
    /\ pc = "call"

\* DataExporter.export_data(file_path, objects, format_type)
ExportData ==
    /\ pc = "call"
    /\ pc' = "exported"
    /\ IF exp_args.objects = <<>>
       THEN /\ exp_ret' = "ValueError"
            /\ UNCHANGED exp_file
       ELSE IF exp_args.format_type = "csv"
       THEN /\ exp_file' = [format |-> "csv", text |-> "",
                            rows |-> ExportCsv(exp_args.objects)]
            /\ exp_ret' = "True"
       ELSE /\ exp_file' = [format |-> "json",
                            text |-> ExportJson(exp_args.objects),
                            rows |-> <<>>]
            /\ exp_ret' = "True"
    /\ UNCHANGED <<loaderVars, windowVars, viewVars, modelVars, validateVars, detectVars, similarVars, corrVars,
                   exp_args>>

\* DataLoader.load_file(file_path) on the exported JSON file
LoadExportedFile ==
    /\ pc = "exported"
    /\ exp_file.format = "json"
    /\ pc' = "loaded"
    /\ \E r \in {LoadFile(ReadJsonFile(exp_file.text), FALSE)} :
           /\ heap' = r.heap
           /\ objects' = r.objects
           /\ last' = [op |-> "load_file", path |-> exp_args.file_path,
                       append |-> FALSE, outcome |-> r.outcome, ret |-> r.ret]
    /\ UNCHANGED <<current_file, view_data, tree_items, actions_enabled,
                   loaded, windowVars, modelVars, viewVars, validateVars, detectVars,
                   similarVars, corrVars, exportVars>>

NextExport == ExportData \/ LoadExportedFile

SpecExport == InitExport /\ [][NextExport]_vars

-----------------------------------------------------------------------------
(* MainWindow: the handlers of the user's actions *)

\* The files the window is made to open
WinFiles ==
    { RawFile("badjson", FALSE, <<>>),
      RawFile("dict", TRUE, <<WinStar1>>),
      RawFile("dict", TRUE, <<WinStar1, WinStar2>>) }

WinPath == "f1.json"

\* The methods class WaveformView defines
WaveformViewMethods ==
    { "__init__", "setup_ui", "set_data", "generate_waveform_parameters",
      "normalize_frequency", "normalize_amplitude", "extract_numeric_value",
      "update_waveforms", "on_selection_changed", "toggle_animation",
      "update_animation", "take_screenshot", "select_objects_by_ids" }

\* The methods of the class of a view
ViewMethods(view) ==
    IF view = "waveform" THEN WaveformViewMethods
    ELSE {"__init__", "setup_ui", "set_data", "select_object", "take_screenshot"}

IdsOf(objs) == [i \in DOMAIN objs |-> objs[i].id]

\* ScaleTreeView.get_selected_object: the object of the first selected cell
GetSelectedObject == IF tree_selection = <<>> THEN <<>> ELSE <<tree_selection[1].obj>>

\* ScaleTreeView.get_selected_objects: the objects of the selected cells
\* that are not info buttons
GetSelectedObjects ==
    IF tree_selection # <<>> /\ tree_selection[1].role # "info_button"
    THEN <<tree_selection[1].obj>> ELSE <<>>

\* TableView.select_object: the row of the first id item with the object's id
TableSelectObject(obj_data) ==
    IF \E i \in DOMAIN tree_items : tree_items[i].id = obj_data.id
    THEN <<obj_data.id>> ELSE table_selection

\* highlight_similar_objects of the tree and of the table: the tree marks
\* the row of the object's scale and id, the table the rows of its id
HighlightSimilarObjects(similar_objects) ==
    [tree |-> {<<tree_items[i].scale, tree_items[i].id>> : i \in
                 {i \in DOMAIN tree_items :
                    \E k \in DOMAIN similar_objects :
                       /\ similar_objects[k].scale = tree_items[i].scale
                       /\ similar_objects[k].id = tree_items[i].id}},
     table |-> {tree_items[i].id : i \in
                 {i \in DOMAIN tree_items :
                    \E k \in DOMAIN similar_objects :
                       similar_objects[k].id = tree_items[i].id}}]

\* MainWindow.generate_scientific_analysis: the HTML page of the info dock
GenerateScientificAnalysis(obj_data) ==
    [info_dock EXCEPT !.visible = TRUE, !.page = "html",
                      !.html = <<"analysis", obj_data.id>>]

\* MainWindow.on_object_selected, every view having a select_object
ObjectSelected_AllViews(obj_data) ==
    /\ table_selection' = TableSelectObject(obj_data)
    /\ current_object' = [v \in {"radar", "crystal"} |-> <<obj_data>>]
    /\ info_dock' = GenerateScientificAnalysis(obj_data)
    /\ handled' = Handled("on_object_selected", "", "",
                          {"table_view.select_object",
                           "waveform_view.select_object",
                           "radar_view.select_object",
                           "crystal_view.select_object",
                           "generate_scientific_analysis"}, "")

\* MainWindow.on_object_selected(obj_data): the calls in their order, the
\* first call of a method the view's class lacks raising AttributeError
ObjectSelected(obj_data) ==
    IF "select_object" \notin ViewMethods("table")
    THEN /\ handled' = Handled("on_object_selected", "", "", {},
                               "AttributeError")
         /\ UNCHANGED <<table_selection, current_object, info_dock>>
    ELSE IF "select_object" \notin ViewMethods("waveform")
    THEN /\ table_selection' = TableSelectObject(obj_data)
         /\ handled' = Handled("on_object_selected", "", "",
                               {"table_view.select_object"},
                               "AttributeError")
         /\ UNCHANGED <<current_object, info_dock>>
    ELSE ObjectSelected_AllViews(obj_data)

\* MainWindow.on_info_requested(obj_data)
InfoRequested(obj_data) ==
    /\ info_dock' = [info_dock EXCEPT !.current_object = <<obj_data>>,
                                      !.visible = TRUE]
    /\ handled' = Handled("on_info_requested", "", "", {"info_dock.set_object"},
                          "")
    /\ UNCHANGED <<table_selection, current_object>>

\* ScaleTreeView.on_tree_item_clicked: the user clicks the name cell or the
\* [i] cell of an object row; Qt selects the cell, the view emits
\* object_selected or object_info_requested
OnTreeItemClicked ==
    \E i \in DOMAIN tree_items, role \in {"object", "info_button"} :
        /\ tree_selection' = <<[obj |-> tree_items[i], role |-> role]>>
        /\ IF role = "info_button"
           THEN InfoRequested(tree_items[i])
           ELSE ObjectSelected(tree_items[i])
        /\ UNCHANGED <<loaderVars, funcVars, pc, highlighted, aux_views>>

\* TableView.on_table_item_clicked: the table emits object_selected with
\* the object of the row (set_data gives the table the rows of the tree)
OnTableItemClicked ==
    \E i \in DOMAIN tree_items :
        /\ ObjectSelected(tree_items[i])
        /\ UNCHANGED <<loaderVars, funcVars, pc, tree_selection, highlighted,
                       aux_views>>

\* MainWindow.on_find_similar
OnFindSimilar ==
    /\ IF GetSelectedObject = <<>>
       THEN /\ handled' = Handled("on_find_similar", "information",
                                  "Selection Required", {}, "")
            /\ UNCHANGED highlighted
       ELSE \E similar_objects \in
                FindSimilar(GetSelectedObject[1], heap[objects], 5, "cosine") :
                /\ highlighted' = HighlightSimilarObjects(similar_objects)
                /\ handled' = Handled("on_find_similar", "", "",
                                      {"find_similar"}, "")
    /\ UNCHANGED <<loaderVars, funcVars, pc, tree_selection, table_selection,
                   current_object, info_dock, aux_views>>

Objects(cands) == [i \in DOMAIN cands |-> cands[i].object]

\* MainWindow.on_find_crystals; detected is what find_candidates returns for
\* the loader's objects
OnFindCrystals(detected) ==
    /\ IF heap[objects] = <<>>
       THEN /\ handled' = Handled("on_find_crystals", "information", "No Data",
                                  {}, "")
            /\ UNCHANGED highlighted
       ELSE \E crystal_candidates \in {detected} :
              IF crystal_candidates = <<>>
              THEN /\ handled' = Handled("on_find_crystals", "information",
                                         "No Candidates", {"find_candidates"},
                                         "")
                   /\ UNCHANGED highlighted
              ELSE LET sorted_candidates ==
                           SortByScore(crystal_candidates, 1, <<>>)
                   IN /\ highlighted' =
                            HighlightSimilarObjects(Objects(sorted_candidates))
                      /\ handled' = Handled("on_find_crystals", "information",
                                            "Time Crystal Candidates",
                                            {"find_candidates"}, "")
    /\ UNCHANGED <<loaderVars, funcVars, pc, tree_selection, table_selection,
                   current_object, info_dock, aux_views>>

\* MainWindow.on_find_periodicity; detected is what find_candidates returns
\* for the loader's objects
OnFindPeriodicity(detected) ==
    /\ IF heap[objects] = <<>>
       THEN /\ handled' = Handled("on_find_periodicity", "information",
                                  "No Data", {}, "")
            /\ UNCHANGED <<info_dock, aux_views>>
       ELSE \E found \in {detected} :
              IF found # <<>>
              THEN /\ info_dock' = [info_dock EXCEPT !.visible = TRUE,
                                                     !.page = "html",
                                                     !.html = <<"periodicity">>]
                   /\ IF aux_views["waveform_compare"].created
                      THEN /\ aux_views' =
                                [aux_views EXCEPT
                                   !["waveform_compare"].shown = TRUE]
                           /\ handled' =
                                Handled("on_find_periodicity", "", "",
                                        {"find_candidates",
                                         "select_objects_by_ids"}, "")
                      ELSE /\ UNCHANGED aux_views
                           /\ handled' =
                                Handled("on_find_periodicity", "", "",
                                        {"find_candidates"}, "")
              ELSE /\ handled' = Handled("on_find_periodicity", "information",
                                         "No Periodicity Found",
                                         {"find_candidates"}, "")
                   /\ UNCHANGED <<info_dock, aux_views>>
    /\ UNCHANGED <<loaderVars, funcVars, pc, tree_selection, table_selection,
                   current_object, highlighted>>

\* The handler without the check for loaded objects
ShowAuxView_NoGuard(handler, name) ==
    /\ aux_views' = [aux_views EXCEPT ![name] =
                        [created |-> TRUE, shown |-> TRUE]]
    /\ handled' = Handled(handler, "", "", {name \o ".set_data"}, "")
    /\ UNCHANGED <<loaderVars, funcVars, pc, tree_selection, table_selection,
                   current_object, highlighted, info_dock>>

\* on_show_netgraph, on_show_heatmap and on_show_waveform: the view is
\* created at the first call, given the loader's objects and shown
ShowAuxView(handler, name) ==
    /\ IF heap[objects] = <<>>
       THEN /\ handled' = Handled(handler, "information", "No Data", {}, "")
            /\ UNCHANGED aux_views
       ELSE /\ aux_views' = [aux_views EXCEPT ![name] =
                               [created |-> TRUE, shown |-> TRUE]]
            /\ handled' = Handled(handler, "", "", {name \o ".set_data"}, "")
    /\ UNCHANGED <<loaderVars, funcVars, pc, tree_selection, table_selection,
                   current_object, highlighted, info_dock>>

OnShowNetgraph == ShowAuxView("on_show_netgraph", "netgraph")

OnShowHeatmap == ShowAuxView("on_show_heatmap", "heatmap")

OnShowWaveform == ShowAuxView("on_show_waveform", "waveform_compare")

\* The body of an export handler: the file dialog (an empty path when the
\* user cancels it), then the exporter on the tree's selection, or on the
\* loader's objects when nothing is selected; the exporter succeeds or raises
ExportWith(handler, exporter, error_title) ==
    /\ IF heap[objects] = <<>>
       THEN handled' = Handled(handler, "information", "No Data", {}, "")
       ELSE \E file_path \in {"", "out"} :
              IF file_path = ""
              THEN handled' = Handled(handler, "", "", {}, "")
              ELSE \E raised \in BOOLEAN :
                     handled' = Handled(handler,
                                        IF raised THEN "critical" ELSE "",
                                        IF raised THEN error_title ELSE "",
                                        {"get_selected_objects", exporter}, "")
    /\ UNCHANGED <<loaderVars, funcVars, pc, tree_selection, table_selection,
                   current_object, highlighted, info_dock, aux_views>>

\* MainWindow.on_export_pdf
OnExportPdf == ExportWith("on_export_pdf", "generate_report", "Error Exporting PDF")

\* MainWindow.on_export_data(format_type), for the csv, json and txt actions
OnExportData == ExportWith("on_export_data", "export_data", "Error Exporting Data")

\* The two handlers that run the detector, on the loader's objects
OnDetectorAction ==
    \E detected \in {FindCandidates(heap[objects])} :
        \/ OnFindCrystals(detected)
        \/ OnFindPeriodicity(detected)

\* MainWindow.on_open_file on the files of the window
WinOpenFile ==
    \E raw \in WinFiles :
        \E append_mode \in (IF heap[objects] # <<>> THEN BOOLEAN ELSE {FALSE}) :
            /\ LoadDataFile(WinPath, raw, append_mode)
            /\ UNCHANGED loaded

\* MainWindow.on_reload_file on the files of the window
WinReloadFile ==
    /\ current_file # ""
    /\ \E raw \in WinFiles : LoadDataFile(current_file, raw, FALSE)
    /\ UNCHANGED loaded

NextWindow ==
    \/ WinOpenFile
    \/ WinReloadFile
    \/ OnTreeItemClicked
    \/ OnTableItemClicked
    \/ OnFindSimilar
    \/ OnDetectorAction
    \/ OnShowNetgraph
    \/ OnShowHeatmap
    \/ OnShowWaveform
    \/ OnExportPdf
    \/ OnExportData

SpecWindow == Init /\ [][NextWindow]_vars

-----------------------------------------------------------------------------
(* DataModel *)

\* obj.get('scale', '')
ScaleOf(obj) == IF "scale" \in obj.has THEN obj.scale ELSE ""

\* The for loop of set_objects: the object goes to the end of the list of
\* its scale, a list created at the first object of the scale
RECURSIVE GroupLoop(_, _, _)
GroupLoop(objs, i, by_scale) ==
    IF i > Len(objs) THEN by_scale
    ELSE LET scale == ScaleOf(objs[i])
             with_key == IF scale \notin DOMAIN by_scale
                         THEN [k \in DOMAIN by_scale \cup {scale} |->
                                 IF k = scale THEN <<>> ELSE by_scale[k]]
                         ELSE by_scale
         IN GroupLoop(objs, i + 1,
                      [with_key EXCEPT ![scale] = Append(@, objs[i])])

\* DataModel.extract_metadata: the records of the model have neither a
\* 'tags' nor a 'catalog' key
ExtractMetadata(objs) == [tags |-> {}, catalogs |-> {}]

\* DataModel.get_objects_by_scale
GetObjectsByScale(scale) ==
    IF scale \in DOMAIN dm_by_scale THEN dm_by_scale[scale] ELSE <<>>

ModelNoScale == Elem(TRUE, AllKeys \ {"scale"}, "n", "", "N", Dict(<<>>))
ModelEmptyScale == Elem(TRUE, AllKeys, "e", "", "E", Dict(<<>>))

\* The objects handed to set_objects: two of one scale, one of another,
\* one without a 'scale' key and one whose scale is the empty string
ModelPool == {ObjA, DetSpin, ObjB, ModelNoScale, ModelEmptyScale}

\* set_objects adding to the index it has
SetObjects_KeepIndex ==
    \E objs \in SeqsUpTo(ModelPool, MaxModelLen) :
        /\ dm_all_objects' = objs
        /\ dm_by_scale' = GroupLoop(objs, 1, dm_by_scale)
        /\ dm_metadata' = ExtractMetadata(objs)
        /\ UNCHANGED <<loaderVars, windowVars, viewVars, validateVars, detectVars,
                       similarVars, corrVars, exportVars, pc>>

\* DataModel.set_objects(objects)
SetObjects ==
    \E objs \in SeqsUpTo(ModelPool, MaxModelLen) :
        /\ dm_all_objects' = objs
        /\ dm_by_scale' = GroupLoop(objs, 1, EmptyDict)
        /\ dm_metadata' = ExtractMetadata(objs)
        /\ UNCHANGED <<loaderVars, windowVars, viewVars, validateVars, detectVars,
                       similarVars, corrVars, exportVars, pc>>

NextModel == SetObjects

SpecModel == Init /\ [][NextModel]_vars

-----------------------------------------------------------------------------
(* CrystalView, RadarView and the animation timers of the other views *)
(* The views share no state: a behaviour follows the events of one view *)

MaxFrame == 2        \* timer ticks a view handles after a reset of its counter

\* A reference to a scene item after QGraphicsScene.clear() deleted the item:
\* the use of it may go unnoticed, raise RuntimeError, or end the process
StaleUses == {"ok", "RuntimeError", "crash"}

Touch(items, use) == IF items = "stale" THEN use ELSE "ok"

NonEmptyList(items) == items \in {"live", "stale"}

\* self.graphics_view.scene.clear(): the items of the scene are deleted, the
\* lists particles and bonds keep their references
SceneCleared(c) ==
    [c EXCEPT !.particles = IF @ = "live" THEN "stale" ELSE @,
              !.bonds = IF @ = "live" THEN "stale" ELSE @]

\* CrystalView.create_time_crystal: the only place that fills particles
\* and bonds (num_particles is at least 10)
CreateTimeCrystal(c) ==
    [c EXCEPT !.particles = "live",
              !.bonds = IF c.show_bonds THEN "live" ELSE "empty"]

\* CrystalView.generate_crystal
GenerateCrystal(c) ==
    IF ~c.current_object
    THEN c
    ELSE LET typed == [SceneCleared(c) EXCEPT
                          !.crystal_type = CrystalTypes[c.type_index + 1]]
         IN  IF typed.crystal_type = "time_crystal"
             THEN CreateTimeCrystal(typed)
             ELSE typed

RECURSIVE UpdateCrystal(_), TogglePlay(_)

\* CrystalView.update_crystal: a playing animation is stopped, the scene is
\* cleared and the crystal generated again
UpdateCrystal(c) ==
    IF ~c.current_object
    THEN c
    ELSE GenerateCrystal(SceneCleared(IF c.playing THEN TogglePlay(c) ELSE c))

\* CrystalView.toggle_play
TogglePlay(c) ==
    IF ~c.playing
    THEN [c EXCEPT !.playing = TRUE, !.animation_frame = 0,
                   !.timer_active = TRUE]
    ELSE UpdateCrystal([c EXCEPT !.playing = FALSE, !.timer_active = FALSE])

\* The outcome of a block that uses the items: a try/except around it
\* (guarded) keeps the exception in, the end of the process it cannot keep in
BlockOutcome(uses, guarded) ==
    IF "crash" \in uses THEN "crash"
    ELSE IF "RuntimeError" \in uses /\ ~guarded THEN "RuntimeError"
    ELSE ""

FirstFailure(outcomes) ==
    IF \E i \in DOMAIN outcomes : outcomes[i] # ""
    THEN outcomes[CHOOSE i \in DOMAIN outcomes :
                      /\ outcomes[i] # ""
                      /\ \A j \in 1..(i - 1) : outcomes[j] = ""]
    ELSE ""

\* CrystalView._animate_time_crystal: the particle loop and the first bond
\* loop are inside try/except, the second bond loop is not
AnimateTimeCrystal(c, use) ==
    IF ~NonEmptyList(c.particles)
    THEN c
    ELSE LET with_bonds == c.show_bonds /\ NonEmptyList(c.bonds)
             item_uses == {Touch(c.particles, use), Touch(c.bonds, use)}
             particle_loop == BlockOutcome({Touch(c.particles, use)}, TRUE)
             bond_loop == IF with_bonds THEN BlockOutcome(item_uses, TRUE) ELSE ""
             bond_loop_2 == IF with_bonds THEN BlockOutcome(item_uses, FALSE) ELSE ""
         IN  [c EXCEPT !.raised = "RuntimeError" \in item_uses,
                       !.escaped =
                 FirstFailure(<<particle_loop, bond_loop, bond_loop_2>>)]

\* CrystalView._animate_space_crystal: no try/except
AnimateSpaceCrystal(c, use) ==
    IF ~NonEmptyList(c.particles)
    THEN c
    ELSE LET with_bonds == c.show_bonds /\ NonEmptyList(c.bonds)
             item_uses == {Touch(c.particles, use), Touch(c.bonds, use)}
             particle_loop == BlockOutcome({Touch(c.particles, use)}, FALSE)
             bond_loop == IF with_bonds THEN BlockOutcome(item_uses, FALSE) ELSE ""
         IN  [c EXCEPT !.raised = "RuntimeError" \in item_uses,
                       !.escaped = FirstFailure(<<particle_loop, bond_loop>>)]

\* CrystalView.update_animation, the slot of the timer
UpdateAnimation(c, use) ==
    IF ~c.playing \/ ~c.current_object
    THEN c
    ELSE LET f == [c EXCEPT !.animation_frame = @ + 1,
                            !.particles = IF @ = "unset" THEN "empty" ELSE @,
                            !.bonds = IF c.particles = "unset" THEN "empty" ELSE @]
         IN  IF f.crystal_type = "time_crystal" /\ NonEmptyList(f.particles)
             THEN AnimateTimeCrystal(f, use)
             ELSE IF f.crystal_type = "space_crystal" /\ NonEmptyList(f.particles)
             THEN AnimateSpaceCrystal(f, use)
             ELSE UpdateCrystal(f)

\* The frame of the events of one view: the view is the one followed, the
\* process is alive, the other views are left alone
ViewEvent(view, event) ==
    /\ view_focus = view
    /\ crystal.escaped # "crash"
    /\ view_event' = [view |-> view, event |-> event]
    /\ UNCHANGED <<loaderVars, windowVars, validateVars, detectVars,
                   similarVars, corrVars, exportVars, modelVars, pc,
                   view_focus, aux_data, wave>>

CrystalEvent(event, c) ==
    /\ ViewEvent("crystal", event)
    /\ crystal' = c
    /\ UNCHANGED <<radar, anim>>

\* The view as an event finds it: the exception of an earlier event is gone
CrystalNow == [crystal EXCEPT !.raised = FALSE, !.escaped = ""]

\* CrystalView.set_data(objects) stores the list
CrystalSetData == CrystalEvent("set_data", CrystalNow)

\* CrystalView.select_object(obj_data)
CrystalSelectObject ==
    CrystalEvent("select_object",
                 UpdateCrystal([CrystalNow EXCEPT !.current_object = TRUE]))

\* The user clicks the play button
CrystalTogglePlay == CrystalEvent("toggle_play", TogglePlay(CrystalNow))

\* The timer fires
CrystalTimeout ==
    /\ crystal.timer_active
    /\ crystal.animation_frame < MaxFrame
    /\ \E use \in StaleUses :
           CrystalEvent("timeout", UpdateAnimation(CrystalNow, use))

\* CrystalView.on_type_changed(index): the user picks another crystal type
CrystalOnTypeChanged ==
    \E index \in 0..(Len(CrystalTypes) - 1) :
        /\ index # crystal.type_index
        /\ CrystalEvent("on_type_changed",
                        UpdateCrystal([CrystalNow EXCEPT !.type_index = index]))

\* CrystalView.on_bonds_changed(state)
CrystalOnBondsChanged ==
    CrystalEvent("on_bonds_changed",
                 UpdateCrystal([CrystalNow EXCEPT !.show_bonds = ~@]))

\* CrystalView.on_phase_changed, on_particles_changed and on_color_changed
\* store the value and call update_crystal
CrystalOnPhaseChanged ==
    CrystalEvent("on_phase_changed", UpdateCrystal(CrystalNow))

CrystalOnParticlesChanged ==
    CrystalEvent("on_particles_changed", UpdateCrystal(CrystalNow))

CrystalOnColorChanged ==
    CrystalEvent("on_color_changed", UpdateCrystal(CrystalNow))

MaxRadarObjects == 2 \* objects handed to RadarView.set_data

RadarMaxFrames == 20

RECURSIVE UpdateRadar(_), RadarTogglePlay(_)

\* RadarView.update_radar: a playing animation is stopped, the chart drawn
UpdateRadar(r) ==
    IF ~r.current_object
    THEN r
    ELSE IF r.playing THEN RadarTogglePlay(r) ELSE r

\* RadarView.toggle_play
RadarTogglePlay(r) ==
    IF ~r.playing
    THEN [r EXCEPT !.playing = TRUE, !.animation_frame = 0,
                   !.timer_active = TRUE]
    ELSE UpdateRadar([r EXCEPT !.playing = FALSE, !.timer_active = FALSE])

\* RadarView.update_animation, the slot of the timer
RadarUpdateAnimation(r) ==
    IF ~r.playing \/ ~r.current_object
    THEN r
    ELSE [r EXCEPT !.animation_frame =
             IF @ + 1 > RadarMaxFrames THEN 0 ELSE @ + 1]

\* RadarView.on_comparison_changed(index), the slot of the compare
\* selector's currentIndexChanged; objects_data[index-1] with index -1 is
\* objects_data[-2], which a list of fewer than two objects does not have
OnComparisonChanged(r, index) ==
    IF index = 0
    THEN UpdateRadar([r EXCEPT !.comparison_object = FALSE])
    ELSE IF index - 1 < r.objects_data
    THEN IF index - 1 >= 0 - r.objects_data
         THEN UpdateRadar([r EXCEPT !.comparison_object = TRUE])
         ELSE [r EXCEPT !.escaped = "IndexError"]
    ELSE UpdateRadar([r EXCEPT !.comparison_object = FALSE])

\* RadarView.set_data(objects): clear() of a selector that has entries emits
\* currentIndexChanged(-1), addItem("None") on the empty selector moves the
\* index to 0 and emits currentIndexChanged(0); an exception in the first
\* slot does not stop set_data
RadarSetDataTo(r, n) ==
    LET stored == [r EXCEPT !.objects_data = n]
        cleared == IF r.selector_count > 0
                   THEN OnComparisonChanged(stored, 0 - 1)
                   ELSE stored
    IN  [OnComparisonChanged(cleared, 0) EXCEPT !.selector_count = n + 1,
                                                !.selector_index = 0]

RadarEvent(event, r) ==
    /\ ViewEvent("radar", event)
    /\ radar' = r
    /\ UNCHANGED <<crystal, anim>>

RadarNow == [radar EXCEPT !.escaped = ""]

RadarSetData ==
    \E n \in 0..MaxRadarObjects :
        RadarEvent("set_data", RadarSetDataTo(RadarNow, n))

\* RadarView.select_object(obj_data)
RadarSelectObject ==
    RadarEvent("select_object",
               UpdateRadar([RadarNow EXCEPT !.current_object = TRUE]))

\* The user clicks the play button
RadarTogglePlayClicked == RadarEvent("toggle_play", RadarTogglePlay(RadarNow))

\* The timer fires
RadarTimeout ==
    /\ radar.timer_active
    /\ radar.animation_frame < MaxFrame
    /\ RadarEvent("timeout", RadarUpdateAnimation(RadarNow))

\* The user picks another entry of the compare selector
RadarOnComparisonChanged ==
    \E index \in 0..(radar.selector_count - 1) :
        /\ index # radar.selector_index
        /\ RadarEvent("on_comparison_changed",
                      OnComparisonChanged(
                          [RadarNow EXCEPT !.selector_index = index], index))

\* RadarView.on_fields_changed(value), and update_radar as the slot of the
\* fill checkbox
RadarOnFieldsChanged == RadarEvent("on_fields_changed", UpdateRadar(RadarNow))

RadarOnFillChanged == RadarEvent("fill_check", UpdateRadar(RadarNow))

\* toggle_animation(state) of WaveformView, HeatmapView and NetGraphView
ToggleAnimation(a, state) ==
    [a EXCEPT !.animation_running = state, !.timer_active = state]

\* update_animation of the three views: the heatmap returns before the
\* increment while it has no correlation data, the others always increment
TimerUpdateAnimation(view, a) ==
    IF view = "heatmap" /\ ~a.has_data
    THEN a
    ELSE [a EXCEPT !.animation_frame = @ + 1]

\* set_data(objects) of the three views: the heatmap keeps its correlation
\* data when the new list is empty
ViewSetData(view, a, n) ==
    [a EXCEPT !.has_data = IF view = "heatmap" THEN @ \/ n > 0 ELSE n > 0]

\* The settings of the three views and their slots
ViewSettings ==
    [waveform |-> {"freq_slider", "amp_slider", "wave_type_combo",
                   "normalize_check"},
     heatmap |-> {"on_property_changed", "on_colormap_changed"},
     netgraph |-> {"on_scale_changed", "on_property_changed",
                   "on_threshold_changed"}]

SettingChangedTo_ResetsFrame(view, a, setting) ==
    [a EXCEPT !.animation_frame = 0]

\* update_waveforms, on_property_changed / on_colormap_changed and
\* generate_graph redraw and leave the timer and the counter alone
SettingChangedTo(view, a, setting) == a

AnimEvent(view, event, a) ==
    /\ view \in ToggledViews
    /\ ViewEvent(view, event)
    /\ anim' = [anim EXCEPT ![view] = a]
    /\ UNCHANGED <<crystal, radar>>

AnimSetData ==
    \E view \in ToggledViews, n \in 0..1 :
        AnimEvent(view, "set_data", ViewSetData(view, anim[view], n))

\* The user toggles the animation button / checkbox
AnimToggled ==
    \E view \in ToggledViews :
        AnimEvent(view, "toggle_animation",
                  ToggleAnimation(anim[view], ~anim[view].animation_running))

\* The timer fires
AnimTimeout ==
    \E view \in ToggledViews :
        /\ anim[view].timer_active
        /\ anim[view].animation_frame < MaxFrame
        /\ AnimEvent(view, "timeout", TimerUpdateAnimation(view, anim[view]))

AnimSettingChanged ==
    \E view \in ToggledViews :
        \E setting \in ViewSettings[view] :
            AnimEvent(view, setting, SettingChangedTo(view, anim[view], setting))

InitViewsFocused ==
    /\ InitLoader
    /\ InitWindow
    /\ InitDataModel
    /\ InitExportIdle
    /\ InitCorrIdle
    /\ InitValidateIdle
    /\ InitDetectIdle
    /\ InitSimilarIdle
    /\ pc = "idle"
    /\ \E focus \in AnimatedViews : InitViews(focus)

NextViews ==
    \/ CrystalSetData
    \/ CrystalSelectObject
    \/ CrystalTogglePlay
    \/ CrystalTimeout
    \/ CrystalOnTypeChanged
    \/ CrystalOnBondsChanged
    \/ CrystalOnPhaseChanged
    \/ CrystalOnParticlesChanged
    \/ CrystalOnColorChanged
    \/ RadarSetData
    \/ RadarSelectObject
    \/ RadarTogglePlayClicked
    \/ RadarTimeout
    \/ RadarOnComparisonChanged
    \/ RadarOnFieldsChanged
    \/ RadarOnFillChanged
    \/ AnimSetData
    \/ AnimToggled
    \/ AnimTimeout
    \/ AnimSettingChanged

SpecViews == InitViewsFocused /\ [][NextViews]_vars

-----------------------------------------------------------------------------
(* HeatmapView and NetGraphView in their own windows *)

AuxDataViews == {"heatmap", "netgraph"}

\* HeatmapView.calculate_correlation_matrix: nothing changes for an empty
\* list, else object_ids are the ids of the view's objects, in their order
CalculateCorrelationMatrix(h, objs) ==
    IF objs = <<>> THEN h
    ELSE [h EXCEPT !.correlation_data = Some(IdsOf(objs))]

\* HeatmapView.set_data(objects), objects being the list behind ref
HeatmapSetData(h, ref, objs) ==
    CalculateCorrelationMatrix([h EXCEPT !.objects = ref], objs)

\* HeatmapView.on_property_changed
HeatmapOnPropertyChanged(h, property, objs) ==
    CalculateCorrelationMatrix([h EXCEPT !.selected_property = property], objs)

\* NetGraphView.generate_graph: the nodes are dropped, then one node per id
\* of the objects the scale filter lets through
GenerateGraph(g, objs) ==
    LET filtered_objects ==
            IF g.selected_scale = "all" THEN objs
            ELSE SelectSeq(objs, LAMBDA o : o.scale = g.selected_scale)
    IN [g EXCEPT !.nodes = ExistingIds(filtered_objects)]

\* NetGraphView.set_data(objects): the scale selector is filled again, which
\* leaves it on its first entry, and the graph is generated
NetGraphSetData(g, ref, objs) ==
    GenerateGraph([g EXCEPT !.objects = ref,
                            !.scales = {objs[i].scale : i \in DOMAIN objs} \ {""},
                            !.selected_scale = "all"],
                  objs)

\* on_show_heatmap and on_show_netgraph with the data the view is given:
\* DataLoader.objects itself, not a copy
OnShowWithData(handler, name, data) ==
    /\ view_focus = name
    /\ IF heap[objects] = <<>>
       THEN /\ handled' = Handled(handler, "information", "No Data", {}, "")
            /\ UNCHANGED <<aux_views, aux_data>>
       ELSE /\ aux_views' = [aux_views EXCEPT ![name] =
                               [created |-> TRUE, shown |-> TRUE]]
            /\ handled' = Handled(handler, "", "", {name \o ".set_data"}, "")
            /\ aux_data' = [aux_data EXCEPT ![name] = data]
    /\ UNCHANGED <<loaderVars, validateVars, detectVars, similarVars, corrVars,
                   exportVars, modelVars, pc, tree_selection, table_selection,
                   current_object, highlighted, info_dock, crystal, radar, anim,
                   view_focus, view_event, wave>>

ShowHeatmapWithData ==
    OnShowWithData("on_show_heatmap", "heatmap",
                   HeatmapSetData(aux_data.heatmap, objects, heap[objects]))

ShowNetgraphWithData ==
    OnShowWithData("on_show_netgraph", "netgraph",
                   NetGraphSetData(aux_data.netgraph, objects, heap[objects]))

\* A control of a created view is used
AuxControl(name, control, data) ==
    /\ view_focus = name
    /\ aux_views[name].created
    /\ aux_data' = [aux_data EXCEPT ![name] = data]
    /\ view_event' = [view |-> name, event |-> control]
    /\ UNCHANGED <<loaderVars, windowVars, validateVars, detectVars, similarVars,
                   corrVars, exportVars, modelVars, pc, crystal, radar, anim,
                   view_focus, wave>>

\* The user picks another property in the heatmap
HeatmapPropertyPicked ==
    \E property \in PropertyTypes \ {aux_data.heatmap.selected_property} :
        AuxControl("heatmap", "on_property_changed",
                   HeatmapOnPropertyChanged(aux_data.heatmap, property,
                                            ListOf(heap, aux_data.heatmap.objects)))

\* The user picks another entry of the scale selector: on_scale_changed
NetGraphScalePicked ==
    \E scale \in ({"all"} \cup aux_data.netgraph.scales)
                   \ {aux_data.netgraph.selected_scale} :
        AuxControl("netgraph", "on_scale_changed",
                   GenerateGraph([aux_data.netgraph EXCEPT !.selected_scale = scale],
                                 ListOf(heap, aux_data.netgraph.objects)))

\* The user moves the threshold slider: on_threshold_changed
NetGraphThresholdMoved ==
    AuxControl("netgraph", "on_threshold_changed",
               GenerateGraph(aux_data.netgraph,
                             ListOf(heap, aux_data.netgraph.objects)))

InitShown ==
    /\ InitLoader
    /\ InitWindow
    /\ InitDataModel
    /\ InitExportIdle
    /\ InitCorrIdle
    /\ InitValidateIdle
    /\ InitDetectIdle
    /\ InitSimilarIdle
    /\ pc = "idle"
    /\ \E focus \in AuxDataViews : InitViews(focus)

NextShown ==
    \/ WinOpenFile
    \/ WinReloadFile
    \/ ShowHeatmapWithData
    \/ ShowNetgraphWithData
    \/ HeatmapPropertyPicked
    \/ NetGraphScalePicked
    \/ NetGraphThresholdMoved

SpecShown == InitShown /\ [][NextShown]_vars

-----------------------------------------------------------------------------
(* The selection of WaveformView *)

MaxWaveLen == 7      \* objects handed to WaveformView.set_data

max_objects == 6

\* The lists handed to set_data, an object standing for its id: objects of
\* different ids, and lists in which two objects share an id
WaveLists ==
    {[i \in 1..n |-> i] : n \in 0..MaxWaveLen}
    \cup {<<1, 1, 2>>, [i \in 1..MaxWaveLen |-> 1]}

\* The id lists select_objects_by_ids is called with
WaveIdSets ==
    {1..k : k \in 0..MaxWaveLen} \cup {{k} : k \in 1..(MaxWaveLen + 1)}

\* The handler that takes over the selection whatever its size
OnSelectionChanged_NoLimit(w) == [w EXCEPT !.selected_objects = w.selected]

\* on_selection_changed, the slot of the list's itemSelectionChanged, and
\* QListWidgetItem.setSelected, which emits the signal when the item's
\* selection changes. selected_objects is kept as the rows of the items
\* whose ids it lists
RECURSIVE OnSelectionChanged(_), SetSelected(_, _, _)
OnSelectionChanged(w) ==
    IF Cardinality(w.selected) > max_objects
    THEN IF w.current # 0 THEN SetSelected(w, w.current, FALSE) ELSE w
    ELSE [w EXCEPT !.selected_objects = w.selected]

SetSelected(w, row, value) ==
    IF (row \in w.selected) = value THEN w
    ELSE OnSelectionChanged(
             [w EXCEPT !.selected = IF value THEN @ \cup {row} ELSE @ \ {row}])

\* for i in range(first, stop): self.object_list.item(i).setSelected(value)
\* for the items whose id is among object_ids
RECURSIVE SetSelectedLoop(_, _, _, _, _)
SetSelectedLoop(w, row, stop, object_ids, value) ==
    IF row > stop THEN w
    ELSE SetSelectedLoop(IF w.items[row] \in object_ids
                         THEN SetSelected(w, row, value) ELSE w,
                         row + 1, stop, object_ids, value)

\* WaveformView.set_data(objects): the list widget is emptied and filled,
\* the first three items are selected one after the other
WaveSetData(w, objs) ==
    SetSelectedLoop([objects |-> objs, items |-> objs, selected |-> {},
                     current |-> 0, selected_objects |-> {}],
                    1, Min(3, Len(objs)), Range(objs), TRUE)

\* WaveformView.select_objects_by_ids(object_ids)
SelectObjectsByIds(w, object_ids) ==
    SetSelectedLoop(SetSelectedLoop(w, 1, Len(w.items), Range(w.items), FALSE),
                    1, Len(w.items), object_ids, TRUE)

WaveEvent(event, w) ==
    /\ view_focus = "waveform_list"
    /\ wave' = w
    /\ view_event' = [view |-> "waveform", event |-> event]
    /\ UNCHANGED <<loaderVars, windowVars, validateVars, detectVars, similarVars,
                   corrVars, exportVars, modelVars, pc, crystal, radar, anim,
                   view_focus, aux_data>>

WaveSetDataCalled ==
    \E objs \in WaveLists : WaveEvent("set_data", WaveSetData(wave, objs))

WaveSelectObjectsByIds ==
    \E object_ids \in WaveIdSets :
        WaveEvent("select_objects_by_ids", SelectObjectsByIds(wave, object_ids))

\* A click on an item of the list, which is in MultiSelection mode: the item
\* becomes the current item and its selection is toggled
WaveItemClicked ==
    \E row \in DOMAIN wave.items :
        WaveEvent("item_clicked",
                  SetSelected([wave EXCEPT !.current = row], row,
                              row \notin wave.selected))

\* Ctrl+A in the list: every item is selected at once
WaveAllSelected ==
    /\ wave.selected # DOMAIN wave.items
    /\ WaveEvent("select_all",
                 OnSelectionChanged([wave EXCEPT !.selected = DOMAIN wave.items]))

\* An append load extends the list the view was given, which is the
\* loader's; the view is not told
WaveListExtended ==
    /\ wave.objects # <<>>
    /\ Len(wave.objects) = Len(wave.items)
    /\ WaveEvent("list_extended",
                 [wave EXCEPT !.objects = Append(@, MaxWaveLen + 2)])

InitWaveList ==
    /\ InitLoader
    /\ InitWindow
    /\ InitDataModel
    /\ InitExportIdle
    /\ InitCorrIdle
    /\ InitValidateIdle
    /\ InitDetectIdle
    /\ InitSimilarIdle
    /\ pc = "idle"
    /\ InitViews("waveform_list")

NextWave ==
    \/ WaveSetDataCalled
    \/ WaveSelectObjectsByIds
    \/ WaveItemClicked
    \/ WaveAllSelected
    \/ WaveListExtended

SpecWave == InitWaveList /\ [][NextWave]_vars

-----------------------------------------------------------------------------
(* Properties of the loader *)

\* A record the loader is specified to keep
IsValidRecord(e) ==
    /\ e.isdict
    /\ {"id", "scale", "name"} \subseteq e.has
    /\ \E i \in DOMAIN SCALE_NAMES : SCALE_NAMES[i] = e.scale
    /\ "data" \in e.has
    /\ e.data.isdict

\* C1: for a dict with an 'objects' list or a bare list, _validate_data
\* returns exactly the valid records, in input order and unchanged (None
\* when there is none); an invalid record is dropped and the records after
\* it are still examined.
C1_ValidateKeepsExactlyValid ==
    (pc = "done" /\ raw_data.kind \in {"dict", "list"} /\ raw_data.hasObjects)
    => LET kept == SelectSeq(raw_data.objects, IsValidRecord)
       IN IF kept = <<>> THEN valid_result = None
          ELSE ~valid_result.none /\ valid_result.list = kept

\* An invalid record followed by a valid one: the valid one is returned
C1_Witness ==
    /\ pc = "done"
    /\ Len(raw_data.objects) = 2
    /\ ~IsValidRecord(raw_data.objects[1])
    /\ valid_result = Some(<<raw_data.objects[2]>>)

\* C2 as stated: every loaded object has a non-empty id, a known scale and
\* a data map.
C2_LiveObjectsHaveNonEmptyId ==
    \A i \in DOMAIN heap[objects] :
        LET o == heap[objects][i]
        IN o.id # "" /\ o.scale \in Range(SCALE_NAMES) /\ o.data.isdict

\* C2 amended: every loaded object has an id key (its value may be the
\* empty string), a name key, a known scale and a data map.
C2_LiveObjectsValid ==
    \A i \in DOMAIN heap[objects] : IsValidRecord(heap[objects][i])

\* Objects loaded by a replace load and then extended by an append load
C2_Witness ==
    /\ last.op = "load"
    /\ last.outcome = "appended"
    /\ Len(heap[objects]) >= 2

PairwiseDistinctIds(objs) ==
    \A i, j \in DOMAIN objs : i # j => objs[i].id # objs[j].id

\* C3: an append load onto a list with pairwise distinct ids leaves the ids
\* of DataLoader.objects pairwise distinct.
C3_AppendKeepsIdsDistinct ==
    [][(last'.op = "load" /\ last'.outcome = "appended"
        /\ PairwiseDistinctIds(heap[objects]))
       => PairwiseDistinctIds(heap'[objects'])]_vars

\* C4: a load that fails on invalid JSON returns None and leaves
\* DataLoader.objects, current_file and every view's objects untouched.
C4_BadJsonLeavesDataUntouched ==
    [][(last'.op = "load" /\ last'.outcome = "badjson")
       => /\ last'.ret = NoRef
          /\ objects' = objects
          /\ heap' = heap
          /\ current_file' = current_file
          /\ view_data' = view_data
          /\ tree_items' = tree_items
          /\ actions_enabled' = actions_enabled]_vars

\* A load failed on invalid JSON while objects were loaded
C4_Witness ==
    /\ last.op = "load"
    /\ last.outcome = "badjson"
    /\ heap[objects] # <<>>
    /\ current_file # ""
    /\ tree_items # <<>>

-----------------------------------------------------------------------------
(* Properties of the detector *)

HasEmptyData(o) == "data" \in o.has /\ o.data.isdict /\ o.data.items = <<>>

Occurrences(seq, x) == Cardinality({i \in DOMAIN seq : seq[i] = x})

CandidateObjects == [i \in DOMAIN candidates |-> candidates[i].object]

\* C5: _evaluate_candidate returns a score s with 0 <= s <= 10 for every
\* object, and every candidate of find_candidates carries such a score.
C5_ScoreWithinRange ==
    pc = "done" =>
        /\ \A i \in DOMAIN det_objects :
               ScoreTable[det_objects[i]] >= 0 /\ ScoreTable[det_objects[i]] <= 10
        /\ \A i \in DOMAIN candidates :
               candidates[i].score >= 0 /\ candidates[i].score <= 10

\* A candidate whose points add up to more than 10 before the normalisation
C5_Witness ==
    /\ pc = "done"
    /\ \E i \in DOMAIN candidates :
           RawScore(candidates[i].object) > 10 /\ candidates[i].score = 10

C8_SortedAndStable ==
    pc = "done" =>
        /\ \A i, j \in DOMAIN candidates :
               i < j => candidates[i].score >= candidates[j].score
        /\ \A sc \in 1..10 :
               LET tied == SelectSeq(candidates, LAMBDA c : c.score = sc)
               IN [i \in DOMAIN tied |-> tied[i].object]
                  = SelectSeq(det_objects, LAMBDA o : ScoreTable[o] = sc)

\* Two different objects of equal score, behind a lower-scored object in
\* the input and in front of it in the output
C8_Witness ==
    /\ pc = "done"
    /\ Len(candidates) = 3
    /\ candidates[1].score = candidates[2].score
    /\ candidates[1].object # candidates[2].object
    /\ candidates[3].score < candidates[2].score
    /\ det_objects[1] = candidates[3].object

-----------------------------------------------------------------------------
(* Properties of the similarity finder *)

\* The feature-bearing objects of the call: those _extract_features keeps
FeatureBearing ==
    ExtractFeatures(sim_args.source, sim_args.all_objects).objects

SourceFirst == sim_result # <<>> /\ sim_result[1] = sim_args.source

\* C9 as stated: with at least 2 feature-bearing objects in all_objects the
\* result is non-empty and starts with the source, for both metrics.
C9_SourceFirstWheneverTwoFeatureBearing ==
    (pc = "done" /\ Len(FeatureBearing) >= 2) => SourceFirst

\* C9 amended: with at least 2 feature-bearing objects in all_objects, the
\* source being one of them, the result is non-empty and starts with the
\* source, for both metrics.
C9_SourceFirstWhenSourceFeatureBearing ==
    (/\ pc = "done"
     /\ Len(FeatureBearing) >= 2
     /\ \E i \in DOMAIN FeatureBearing : FeatureBearing[i] = sim_args.source)
    => SourceFirst

\* A feature-bearing source, not the first of the list, with exactly one
\* other feature-bearing object, under the euclidean metric
C9_Witness ==
    /\ pc = "done"
    /\ sim_args.metric = "euclidean"
    /\ Len(FeatureBearing) = 2
    /\ FeatureBearing[2] = sim_args.source
    /\ sim_args.all_objects[1] # sim_args.source
    /\ SourceFirst

\* C10: in a non-empty result the source occurs exactly once, at index 0,
\* and no other object occurs twice.
C10_SourceOnlyAtHead ==
    (pc = "done" /\ sim_result # <<>>)
    => /\ sim_result[1] = sim_args.source
       /\ \A k \in 2..Len(sim_result) : sim_result[k] # sim_args.source
       /\ \A j, k \in DOMAIN sim_result : j # k => sim_result[j] # sim_result[k]

\* The source is one of the feature-bearing objects of the call
SourceFeatureBearing ==
    \E i \in DOMAIN FeatureBearing : FeatureBearing[i] = sim_args.source

\* C11: find_similar returns the empty list when fewer than 2 objects of
\* all_objects are feature-bearing, and when the source itself is not
\* feature-bearing.
C11_EmptyWithoutFeatures ==
    (pc = "done" /\ (Len(FeatureBearing) < 2 \/ ~SourceFeatureBearing))
    => sim_result = <<>>

\* C12: for every n >= 0 the result holds at most n + 1 objects, the source
\* included.
C12_AtMostNPlusOne ==
    pc = "done" => Len(sim_result) <= sim_args.n + 1

\* More feature-bearing objects than asked for: the result is cut to the
\* source and n neighbours
C12_Witness ==
    /\ pc = "done"
    /\ sim_args.n >= 1
    /\ Len(FeatureBearing) > sim_args.n + 1
    /\ Len(sim_result) = sim_args.n + 1

-----------------------------------------------------------------------------
(* Properties of the correlation views *)

\* C13: calculate_property_similarity of the heatmap view and of the network
\* graph view returns a value v with 0 <= v <= 1 for every pair of objects
\* and every property category.
C13_SimilarityWithinUnitInterval ==
    pc = "done" => (corr_result.n >= 0 /\ corr_result.n <= 10 * corr_result.d)

CorrNames(obj) == {obj.data.items[i].k : i \in DOMAIN obj.data.items}

\* The pairs of field names in use that contain one of the six terms both
\* (whatever the case of their letters), or that start with the same five
\* characters, the first name being longer than four characters
RelatedNames ==
    [field1 \in CorrFields |->
        {field2 \in CorrFields :
            \/ \E term \in {"period", "frequency", "mass", "energy", "time", "cycle"} :
                   Contains(Lower(field1), term) /\ Contains(Lower(field2), term)
            \/ /\ Len(field1) > 4
               /\ Len(field2) > 4
               /\ SubSeq(field1, 1, 5) = SubSeq(field2, 1, 5)}]

HeatmapDoneSameScale ==
    /\ pc = "done"
    /\ corr_args.view = "heatmap"
    /\ corr_args.obj1.scale = corr_args.obj2.scale

\* C14 as stated: two objects of the same scale whose data maps have no
\* field name in common receive heatmap similarity exactly 0.3.
C14_NoCommonNameGivesFloor ==
    (HeatmapDoneSameScale
     /\ CorrNames(corr_args.obj1) \cap CorrNames(corr_args.obj2) = {})
    => corr_result.n = 3 * corr_result.d

\* C14 amended: two objects of the same scale receive heatmap similarity
\* exactly 0.3 when their data maps have no field name in common and no
\* field name of the first is related to a field name of the second (by a
\* shared term or by the first five characters).
C14_NoRelatedNameGivesFloor ==
    (HeatmapDoneSameScale
     /\ CorrNames(corr_args.obj1) \cap CorrNames(corr_args.obj2) = {}
     /\ \A field1 \in CorrNames(corr_args.obj1) :
            RelatedNames[field1] \cap CorrNames(corr_args.obj2) = {})
    => corr_result.n = 3 * corr_result.d

\* Two objects of one scale, each with data, no name of one related to a
\* name of the other: the heatmap similarity is 0.3
C14_Witness ==
    /\ HeatmapDoneSameScale
    /\ CorrNames(corr_args.obj1) # {}
    /\ CorrNames(corr_args.obj2) # {}
    /\ \A field1 \in CorrNames(corr_args.obj1) :
           (RelatedNames[field1] \cup {field1}) \cap CorrNames(corr_args.obj2) = {}
    /\ corr_result = [n |-> 3, d |-> 1]

-----------------------------------------------------------------------------
(* Properties of the exporter *)

DataNames(obj) == {obj.data.items[j].k : j \in DOMAIN obj.data.items}

\* C16: the CSV export writes the header ID, Scale, Name and the sorted
\* union of the data field names, then one row per object in input order;
\* every row has as many cells as the header, and an empty cell for each
\* data field the object lacks.
C16_CsvHeaderAndRows ==
    (pc = "exported" /\ exp_file.format = "csv")
    => LET rows == exp_file.rows
           objs == exp_args.objects
           header == rows[1]
       IN /\ Len(rows) = 1 + Len(objs)
          /\ SubSeq(header, 1, 3) = <<"ID", "Scale", "Name">>
          /\ {header[j] : j \in 4..Len(header)}
             = UNION {DataNames(objs[i]) : i \in DOMAIN objs}
          /\ \A j \in 4..(Len(header) - 1) : StrLess(header[j], header[j + 1])
          /\ \A i \in DOMAIN objs :
                 /\ Len(rows[i + 1]) = Len(header)
                 /\ SubSeq(rows[i + 1], 1, 3)
                    = <<objs[i].id, objs[i].scale, objs[i].name>>
                 /\ \A j \in 4..Len(header) :
                        header[j] \notin DataNames(objs[i]) => rows[i + 1][j] = ""

\* Two objects with different data fields: each row has empty cells for
\* the fields of the other object
C16_Witness ==
    /\ pc = "exported"
    /\ exp_file.format = "csv"
    /\ exp_args.objects = <<ExpMixed, ExpQuote>>
    /\ exp_file.rows[1]
       = <<"ID", "Scale", "Name", "Alpha", "b_field", "mass", "note", "spin", "void">>
    /\ exp_file.rows[2] = <<"m", "stellar", "M, the 2nd", "x,y", "0.5", "", "", "", "">>

-----------------------------------------------------------------------------
(* Properties of the main window's handlers *)

\* A step of on_object_selected for the object of row i of the tree
ObjectSelectedStep(i) ==
    /\ ObjectSelected(tree_items[i])
    /\ UNCHANGED <<loaderVars, highlighted, aux_views>>

\* C17: when on_object_selected has run for an object, the table has the
\* object's row selected, the radar view and the crystal view have the
\* object as current_object and the info dock shows its analysis
C17_SelectionPropagates ==
    [][\A i \in DOMAIN tree_items :
          ObjectSelectedStep(i) =>
             /\ table_selection' = <<tree_items[i].id>>
             /\ current_object'["radar"] = <<tree_items[i]>>
             /\ current_object'["crystal"] = <<tree_items[i]>>
             /\ info_dock'.visible
             /\ info_dock'.page = "html"
             /\ info_dock'.html = <<"analysis", tree_items[i].id>>]_vars

\* C18: no exception leaves the handler of a user action
C18_NoExceptionEscapes == handled.escaped = ""

\* A step of one of the handlers that check for loaded objects
LoadedObjectsHandlerStep ==
    \/ OnDetectorAction
    \/ OnShowNetgraph
    \/ OnShowHeatmap
    \/ OnShowWaveform
    \/ OnExportPdf
    \/ OnExportData

\* The handler did nothing but open an information dialog
OnlyInformationDialog ==
    /\ handled'.dialog = "information"
    /\ handled'.invoked = {}
    /\ handled'.escaped = ""
    /\ UNCHANGED <<loaderVars, funcVars, tree_selection, table_selection,
                   current_object, highlighted, info_dock, aux_views>>

\* C19: with no objects loaded the handlers that need objects, and with no
\* object selected in the tree on_find_similar, open an information dialog
\* and return: no component is called, no view is created, nothing changes
C19_GuardsShortCircuit ==
    [][/\ (heap[objects] = <<>> /\ LoadedObjectsHandlerStep)
             => OnlyInformationDialog
       /\ (GetSelectedObject = <<>> /\ OnFindSimilar)
             => OnlyInformationDialog]_vars

C19_Witness ==
    /\ heap[objects] = <<>>
    /\ handled.handler = "on_show_heatmap"
    /\ handled.dialog = "information"
    /\ handled.title = "No Data"
    /\ \A v \in AuxNames : ~aux_views[v].created

-----------------------------------------------------------------------------
(* Properties of the data model *)

\* The objects of a list that have the scale, in the order of the list
OfScale(objs, scale) == SelectSeq(objs, LAMBDA o : ScaleOf(o) = scale)

ModelScales == {ScaleOf(o) : o \in ModelPool} \cup {"molecular"}

\* C20: after set_objects the index has, for every scale, the objects of
\* all_objects of that scale, each once and in the order of all_objects,
\* and holds no other key and no other object
C20_IndexConsistent ==
    /\ \A scale \in ModelScales :
          GetObjectsByScale(scale) = OfScale(dm_all_objects, scale)
    /\ \A k \in DOMAIN dm_by_scale :
          /\ dm_by_scale[k] # <<>>
          /\ dm_by_scale[k] = OfScale(dm_all_objects, k)

C20_Witness ==
    /\ dm_all_objects = <<DetSpin, ObjB, ObjA>>
    /\ GetObjectsByScale("quantum") = <<DetSpin, ObjA>>
    /\ GetObjectsByScale("planetary") = <<ObjB>>
    /\ DOMAIN dm_by_scale = {"quantum", "planetary"}

-----------------------------------------------------------------------------
(* Properties of the animated views *)

\* The playing flag and the timer's state of every view
AnimationState ==
    [v \in AnimatedViews |->
        IF v = "crystal" THEN <<crystal.playing, crystal.timer_active>>
        ELSE IF v = "radar" THEN <<radar.playing, radar.timer_active>>
        ELSE <<anim[v].animation_running, anim[v].timer_active>>]

\* The frame counter of every view
AnimationFrames ==
    [v \in AnimatedViews |->
        IF v = "crystal" THEN crystal.animation_frame
        ELSE IF v = "radar" THEN radar.animation_frame
        ELSE anim[v].animation_frame]

ToggleEvents == {"toggle_play", "toggle_animation"}

\* The slots of the settings of the five views
SettingEvents ==
    {"on_type_changed", "on_particles_changed", "on_bonds_changed",
     "on_color_changed", "on_phase_changed", "on_comparison_changed",
     "on_fields_changed", "fill_check"}
        \cup UNION {ViewSettings[v] : v \in ToggledViews}

\* C21: the playing flag and the timer's running state of a view change only
\* in the user's animation toggle of that view: a timer tick, an object
\* selection, a data load and a settings change leave them as they are
C21_OnlyTheToggleStartsAndStops ==
    [][view_event'.event \notin ToggleEvents
           => AnimationState' = AnimationState]_vars

\* C22: an exception raised while the crystal view handles a timer tick does
\* not leave update_animation, and the view is still playing with its timer
\* running
C22_FrameExceptionsStayInside ==
    (view_event.view = "crystal" /\ view_event.event = "timeout"
         /\ crystal.raised)
        => crystal.escaped = "" /\ crystal.playing /\ crystal.timer_active

\* C23 as stated: a settings change of a view sets its animation_frame to 0
C23_SettingsChangeResetsFrame ==
    [][view_event'.event \in SettingEvents
           => AnimationFrames'[view_event'.view] = 0]_vars

\* C23, amended: a settings change of a view leaves the animation_frame of
\* every view as it is; the counter is set to 0 only when toggle_play starts
\* the animation of the crystal view or of the radar view
C23_SettingsChangeKeepsFrame ==
    [][view_event'.event \in SettingEvents
           => AnimationFrames' = AnimationFrames]_vars

\* A settings change handled by a view whose counter had advanced
C23_Witness ==
    /\ view_event.event \in SettingEvents
    /\ AnimationFrames[view_event.view] > 0

-----------------------------------------------------------------------------
(* Properties of loading, reloading and the actions' enabling *)

\* The valid objects of the file the last load read
NewObjects == IF loaded.new_objects.none THEN <<>> ELSE loaded.new_objects.list

AppendStep ==
    /\ last'.op = "load"
    /\ last'.append
    /\ heap[objects] # <<>>

\* C24: an append load onto a non-empty list keeps the list object and every
\* object of it at its position, and appends to it, in file order, exactly
\* the valid objects of the file whose id was not in the list before
C24_AppendOnlyExtends ==
    [][AppendStep
       => LET old == heap[objects]
              new == heap'[objects']
          IN  /\ objects' = objects
              /\ Len(new) >= Len(old)
              /\ SubSeq(new, 1, Len(old)) = old
              /\ SubSeq(new, Len(old) + 1, Len(new))
                     = SelectSeq(NewObjects',
                                 LAMBDA o : \A i \in DOMAIN old : old[i].id # o.id)]_vars

\* An append load of a file with one object whose id was present and one
\* whose id was new
C24_Witness ==
    /\ last.op = "load"
    /\ last.append
    /\ last.outcome = "appended"
    /\ heap[objects] = <<ObjA, ObjE>>
    /\ NewObjects = <<ObjA2, ObjE>>

\* C25: a load that found valid objects sets current_file to its path, any
\* other load leaves current_file as it is; a Reload reads current_file in
\* replace mode, and when it found valid objects DataLoader.objects holds
\* exactly the valid objects of that file
C25_CurrentFileAndReload ==
    [][last'.op = "load"
       => /\ current_file' = IF Truthy(loaded'.new_objects)
                             THEN last'.path
                             ELSE current_file
          /\ loaded'.handler = "on_reload_file"
                 => /\ last'.path = current_file
                    /\ ~last'.append
                    /\ Truthy(loaded'.new_objects)
                           => heap'[objects'] = NewObjects']_vars

\* A Reload that found one valid object in the file and left one object
C25_Witness ==
    /\ loaded.handler = "on_reload_file"
    /\ NewObjects = <<ObjA2>>
    /\ heap[objects] = <<ObjA2>>
    /\ current_file = "f2.json"

-----------------------------------------------------------------------------
(* Symmetry of the property similarity *)

SameFraction(x, y) == x.n * y.d = y.n * x.d

\* calculate_property_similarity of the same view on the two objects in the
\* other order
SwappedSimilarity ==
    IF corr_args.view = "heatmap"
    THEN HeatmapSimilarity(corr_args.obj2, corr_args.obj1, corr_args.property_type)
    ELSE NetGraphSimilarity(corr_args.obj2, corr_args.obj1, corr_args.property_type)

\* C27: calculate_property_similarity of the heatmap view and of the network
\* graph view is symmetric: similarity(a, b) = similarity(b, a) for every pair
\* of objects and every property category
C27_SimilaritySymmetric ==
    pc = "done" => SameFraction(corr_result, SwappedSimilarity)

(***************************************************************************)
(* The score of the objects with a periodicity field                       *)
(***************************************************************************)
HasPeriodicityField(obj) ==
    /\ "data" \in obj.has
    /\ obj.data.isdict
    /\ \E i \in DOMAIN obj.data.items : obj.data.items[i].k \in PeriodicityFields

\* C28: after find_candidates, every object handed in whose data map holds
\* a field of the periodicity category is a candidate of score 10, whatever
\* its scale, the field's value and its other fields
C28_PeriodicityFieldScoresTen ==
    pc = "done" =>
        \A i \in DOMAIN det_objects :
            HasPeriodicityField(det_objects[i]) =>
                \E j \in DOMAIN candidates :
                    /\ candidates[j].object = det_objects[i]
                    /\ candidates[j].score = 10

\* An object of an unknown scale whose only field is a periodicity field
\* without a value has been scored
C28_Witness ==
    /\ pc = "done"
    /\ det_objects = <<PeriodicObject("bogus", "cycle_duration", Null, <<>>)>>
    /\ Len(candidates) = 1
    /\ candidates[1].score = 10

(***************************************************************************)
(* Properties of the heatmap and of the network graph once shown           *)
(***************************************************************************)
\* C29: a heatmap that has been shown has the ids of DataLoader.objects as
\* the ids of its correlation matrix, and a network graph that has been
\* shown and whose scale filter is on "all" has them as the ids of its
\* nodes, also after a later load
C29_ShownViewsHoldCurrentObjects ==
    /\ aux_views.heatmap.shown =>
           aux_data.heatmap.correlation_data = Some(IdsOf(heap[objects]))
    /\ (aux_views.netgraph.shown /\ aux_data.netgraph.selected_scale = "all") =>
           aux_data.netgraph.nodes = ExistingIds(heap[objects])

(***************************************************************************)
(* Properties of the waveform view's selection                             *)
(***************************************************************************)
\* The ids selected_objects lists
SelectedIds == {wave.items[row] : row \in wave.selected_objects}

\* C30: selected_objects lists at most max_objects ids, each the id of an
\* object of the view's list, whatever selections, select_objects_by_ids
\* and set_data calls came before; right after set_data it lists the ids of
\* the first min(3, n) objects
C30_SelectionBoundedAndValid ==
    /\ [](/\ Cardinality(wave.selected_objects) <= max_objects
          /\ wave.selected_objects \subseteq DOMAIN wave.items
          /\ SelectedIds \subseteq Range(wave.objects))
    /\ [][view_event'.event = "set_data" =>
             wave'.selected_objects = 1..Min(3, Len(wave'.objects))]_vars

\* More than max_objects items of the list are selected and selected_objects
\* lists max_objects of them
C30_Witness ==
    /\ Cardinality(wave.selected) > max_objects
    /\ Cardinality(wave.selected_objects) = max_objects

====
